---------------------------- MODULE Spec2Model ----------------------------
(***************************************************************************)
(* Mnemosync: the scene-analysis and conversation-analysis pipelines, the  *)
(* tiered fallback (primary model, backup model, regex heuristic), the     *)
(* response parser, the date parser and the persistence of dates.          *)
(*                                                                         *)
(* Text is modelled at the level of word tokens: a string is a sequence of *)
(* tokens, "," and "\n" are tokens of their own, String.includes is a      *)
(* contiguous-subsequence test on lower-cased tokens.                      *)
(*                                                                         *)
(* React state is modelled with the value that was last set (the variable) *)
(* and the value captured by the closures of the last committed render     *)
(* (the field of `rendered`); refs are read and written directly.          *)
(***************************************************************************)
EXTENDS Integers, Sequences, FiniteSets, TLC

(***************************************************************************)
(* Bounds of the model.                                                    *)
(***************************************************************************)
MaxScans == 2
MaxCalls == 2
MaxTurns == 3
MaxAnalyses == 2
MaxToggles == 2
MaxLoads == 2
MaxFailures == 1

(***************************************************************************)
(* Error messages a model source can fail with.  "" stands for an error    *)
(* without a message.                                                      *)
(***************************************************************************)
NoError == "<none>"
MsgNoJson == "No valid JSON found in response"
ErrMsgs == {"429 Too Many Requests", "Quota exceeded", "Network error", MsgNoJson, ""}

\* message.includes('429')
Includes429(m) == m \in {"429 Too Many Requests"}

\* message.toLowerCase().includes('quota')
LowerIncludesQuota(m) == m \in {"Quota exceeded"}

IsQuotaMessage(m) == Includes429(m) \/ LowerIncludesQuota(m)

\* message || 'Unknown error'
OrUnknown(m) == IF m = "" THEN "Unknown error" ELSE m

(***************************************************************************)
(* Scene analysis: the JSON objects a model can answer with.               *)
(***************************************************************************)
NoPerson == [name |-> "", relation |-> "", summary |-> <<>>]

SceneJson ==
    { [personIdentified |-> TRUE, name |-> "Jane", relation |-> "Daughter",
       summary |-> <<"Jane visited yesterday">>, nudges |-> <<"Take pills">>],
      [personIdentified |-> TRUE, name |-> "Sam", relation |-> "",
       summary |-> <<>>, nudges |-> <<>>],
      [personIdentified |-> FALSE, name |-> "", relation |-> "",
       summary |-> <<"No person visible">>, nudges |-> <<>>],
      [personIdentified |-> FALSE, name |-> "", relation |-> "",
       summary |-> <<>>, nudges |-> <<>>] }

\* The object analyzeScene returns from a model's JSON.
FromJson(j, backup) ==
    [kind |-> "json", personIdentified |-> j.personIdentified, name |-> j.name,
     relation |-> j.relation, summary |-> j.summary, nudges |-> j.nudges,
     isQuotaExceeded |-> FALSE, usedBackup |-> backup]

FailureResult(summary, quota) ==
    [kind |-> "failure", personIdentified |-> FALSE, name |-> "", relation |-> "",
     summary |-> summary, nudges |-> <<>>, isQuotaExceeded |-> quota,
     usedBackup |-> FALSE]

QuotaWaitText == "Quota Exceeded: Please wait a minute before scanning again."

\* A variant that reports the first error instead of the last.
BothFailedResultFirstError(pErr, bErr) ==
    FailureResult(<<"Vision Error (All models): ", OrUnknown(pErr)>>,
                  IsQuotaMessage(pErr) \/ IsQuotaMessage(bErr))

\* The failure object built when primary and backup both failed.
BothFailedResult(pErr, bErr) ==
    FailureResult(<<"Vision Error (All models): ", OrUnknown(bErr)>>,
                  IsQuotaMessage(pErr) \/ IsQuotaMessage(bErr))

\* A variant that never raises the quota flag.
PrimaryFailedResultUnflagged(pErr) ==
    FailureResult(IF IsQuotaMessage(pErr) THEN <<QuotaWaitText>>
                  ELSE <<"Vision Error: ", OrUnknown(pErr)>>,
                  FALSE)

\* The failure object built when the primary failed and there is no backup.
PrimaryFailedResult(pErr) ==
    FailureResult(IF IsQuotaMessage(pErr) THEN <<QuotaWaitText>>
                  ELSE <<"Vision Error: ", OrUnknown(pErr)>>,
                  IsQuotaMessage(pErr))

(***************************************************************************)
(* Text: a string is a sequence of word tokens.  "," is a comma followed   *)
(* by a blank and "\n" a line break; blanks between words are implicit.    *)
(***************************************************************************)
LowerTable ==
    [t \in {"None", "Unknown", "Today", "Tomorrow", "Feb", "Mar", "Friday", "Monday",
            "Day"} |->
        CASE t = "None" -> "none"
          [] t = "Unknown" -> "unknown"
          [] t = "Today" -> "today"
          [] t = "Tomorrow" -> "tomorrow"
          [] t = "Feb" -> "feb"
          [] t = "Mar" -> "mar"
          [] t = "Friday" -> "friday"
          [] t = "Monday" -> "monday"
          [] t = "Day" -> "day"]

\* String.toLowerCase
Lower(t) == IF t \in DOMAIN LowerTable THEN LowerTable[t] ELSE t

toLowerCase(s) == [i \in 1..Len(s) |-> Lower(s[i])]

\* String.includes
includes(s, phrase) ==
    \E i \in 1..Len(s) :
        /\ i + Len(phrase) - 1 <= Len(s)
        /\ SubSeq(s, i, i + Len(phrase) - 1) = phrase

(***************************************************************************)
(* Calendar.  A Date is [day, tod]: day counts the days since 1 Jan of     *)
(* BaseYear in local time, tod is 0 at midnight and 1 later in the day.    *)
(***************************************************************************)
BaseYear == 2026
BaseWeekday == 4
Years == BaseYear..(BaseYear + 3)

IsLeap(y) == (y % 4 = 0 /\ y % 100 # 0) \/ y % 400 = 0

DaysInYear(y) == IF IsLeap(y) THEN 366 ELSE 365

DaysInMonth(y, m) ==
    CASE m \in {0, 2, 4, 6, 7, 9, 11} -> 31
      [] m \in {3, 5, 8, 10} -> 30
      [] OTHER -> IF IsLeap(y) THEN 29 ELSE 28

RECURSIVE DaysBeforeYear(_)
DaysBeforeYear(y) == IF y <= BaseYear THEN 0 ELSE DaysBeforeYear(y - 1) + DaysInYear(y - 1)

RECURSIVE DaysBeforeMonth(_, _)
DaysBeforeMonth(y, m) == IF m = 0 THEN 0 ELSE DaysBeforeMonth(y, m - 1) + DaysInMonth(y, m - 1)

\* new Date(year, month, day): out-of-range months and days carry over.
DayNumber(y, m, d) ==
    LET yy == y + (m \div 12)
        mm == m % 12
    IN DaysBeforeYear(yy) + DaysBeforeMonth(yy, mm) + d - 1

getFullYear(n) == CHOOSE y \in Years : DaysBeforeYear(y) <= n /\ n < DaysBeforeYear(y + 1)

getMonth(n) ==
    LET y == getFullYear(n)
    IN CHOOSE m \in 0..11 :
          /\ DayNumber(y, m, 1) <= n
          /\ n < DayNumber(y, m, 1) + DaysInMonth(y, m)

getDate(n) == n - DayNumber(getFullYear(n), getMonth(n), 1) + 1

\* Date.getDay: 0 is Sunday
getDay(n) == (n + BaseWeekday) % 7

\* d.setDate(d.getDate() + k)
AddDays(date, k) == [date EXCEPT !.day = date.day + k]

\* d.setMonth(d.getMonth() + 1)
AddMonth(date) ==
    [date EXCEPT !.day = DayNumber(getFullYear(date.day), getMonth(date.day) + 1,
                                   getDate(date.day))]

\* new Date(year, month, day): midnight
MidnightOf(y, m, d) == [day |-> DayNumber(y, m, d), tod |-> 0]

\* targetDate < now
Before(a, b) == a.day < b.day \/ (a.day = b.day /\ a.tod < b.tod)

(***************************************************************************)
(* parseDateFromText                                                       *)
(***************************************************************************)
dayNames == <<"sunday", "monday", "tuesday", "wednesday", "thursday", "friday", "saturday">>

\* The month names the two regular expressions accept, with months[name.substring(0, 3)].
MonthNames ==
    [t \in {"jan", "january", "feb", "february", "mar", "march", "apr", "april", "may",
            "jun", "june", "jul", "july", "aug", "august", "sep", "sept", "september",
            "oct", "october", "nov", "november", "dec", "december"} |->
        CASE t \in {"jan", "january"} -> 0
          [] t \in {"feb", "february"} -> 1
          [] t \in {"mar", "march"} -> 2
          [] t \in {"apr", "april"} -> 3
          [] t = "may" -> 4
          [] t \in {"jun", "june"} -> 5
          [] t \in {"jul", "july"} -> 6
          [] t \in {"aug", "august"} -> 7
          [] t \in {"sep", "sept", "september"} -> 8
          [] t \in {"oct", "october"} -> 9
          [] t \in {"nov", "november"} -> 10
          [] t \in {"dec", "december"} -> 11]

\* The tokens matching \d{1,2}(?:st|nd|rd|th)? with the value parseInt gives.
DayTokens ==
    [t \in {"0", "1", "1st", "5", "10", "15", "16", "16th", "28", "29", "31", "32"} |->
        CASE t = "0" -> 0
          [] t \in {"1", "1st"} -> 1
          [] t = "5" -> 5
          [] t = "10" -> 10
          [] t = "15" -> 15
          [] t \in {"16", "16th"} -> 16
          [] t = "28" -> 28
          [] t = "29" -> 29
          [] t = "31" -> 31
          [] t = "32" -> 32]

IsMonthName(t) == Lower(t) \in DOMAIN MonthNames

IsDayToken(t) == t \in DOMAIN DayTokens

\* Position of the leftmost match of /\b(month)\s*(\d{1,2})(?:st|nd|rd|th)?\b/i, or 0.
monthDayMatch(text) ==
    LET hits == {i \in 1..(Len(text) - 1) : IsMonthName(text[i]) /\ IsDayToken(text[i + 1])}
    IN IF hits = {} THEN 0 ELSE CHOOSE i \in hits : \A k \in hits : i <= k

\* Position of the leftmost match of /\b(\d{1,2})(?:st|nd|rd|th)?\s*(month)\b/i, or 0.
dayMonthMatch(text) ==
    LET hits == {i \in 1..(Len(text) - 1) : IsDayToken(text[i]) /\ IsMonthName(text[i + 1])}
    IN IF hits = {} THEN 0 ELSE CHOOSE i \in hits : \A k \in hits : i <= k

\* A variant that compares the calendar days and ignores the time of day.
YearForComparingDays(now, month, day) ==
    LET year == getFullYear(now.day)
    IN IF DayNumber(year, month, day) < now.day THEN year + 1 ELSE year

\* The year is the current one, or the next one if the date has passed.
YearFor(now, month, day) ==
    LET year == getFullYear(now.day)
    IN IF Before(MidnightOf(year, month, day), now) THEN year + 1 ELSE year

\* new Date(text) for the texts that are standard date strings; tod 2 marks an
\* invalid Date.
InvalidDate == [day |-> 0, tod |-> 2]

StandardDates ==
    [t \in {"2026-03-01", "3/1/2026"} |-> [day |-> DayNumber(2026, 2, 1), tod |-> 0]]

standardDate(text) ==
    IF Len(text) = 1 /\ text[1] \in DOMAIN StandardDates
    THEN StandardDates[text[1]]
    ELSE InvalidDate

\* The index of the first day name the text includes, or -1.
FirstDayName(lower) ==
    LET hits == {i \in 0..6 : includes(lower, <<dayNames[i + 1]>>)}
    IN IF hits = {} THEN -1 ELSE CHOOSE i \in hits : \A k \in hits : i <= k

\* A variant that keeps a mention of today's weekday on today.
DaysUntilAllowingToday(i, currentDay) ==
    LET daysUntil == i - currentDay
    IN IF daysUntil < 0 THEN daysUntil + 7 ELSE daysUntil

DaysUntil(i, currentDay) ==
    LET daysUntil == i - currentDay
    IN IF daysUntil <= 0 THEN daysUntil + 7 ELSE daysUntil

\* A variant that returns the invalid Date when nothing matches.
ParseMonthDayOrInvalid(text, now) ==
    LET md == monthDayMatch(text)
        dm == dayMonthMatch(text)
        mdDay == DayTokens[text[md + 1]]
        mdMonth == MonthNames[Lower(text[md])]
        dmDay == DayTokens[text[dm]]
        dmMonth == MonthNames[Lower(text[dm + 1])]
    IN IF md # 0 /\ mdDay >= 1 /\ mdDay <= 31
       THEN MidnightOf(YearFor(now, mdMonth, mdDay), mdMonth, mdDay)
       ELSE IF dm # 0 /\ dmDay >= 1 /\ dmDay <= 31
       THEN MidnightOf(YearFor(now, dmMonth, dmDay), dmMonth, dmDay)
       ELSE standardDate(text)

ParseMonthDay(text, now) ==
    LET md == monthDayMatch(text)
        dm == dayMonthMatch(text)
        mdDay == DayTokens[text[md + 1]]
        mdMonth == MonthNames[Lower(text[md])]
        dmDay == DayTokens[text[dm]]
        dmMonth == MonthNames[Lower(text[dm + 1])]
    IN IF md # 0 /\ mdDay >= 1 /\ mdDay <= 31
       THEN MidnightOf(YearFor(now, mdMonth, mdDay), mdMonth, mdDay)
       ELSE IF dm # 0 /\ dmDay >= 1 /\ dmDay <= 31
       THEN MidnightOf(YearFor(now, dmMonth, dmDay), dmMonth, dmDay)
       ELSE IF standardDate(text) # InvalidDate
       THEN standardDate(text)
       ELSE now

parseDateFromText(text, now) ==
    LET lower == toLowerCase(text)
        i == FirstDayName(lower)
    IN IF includes(lower, <<"today">>) THEN now
       ELSE IF includes(lower, <<"tomorrow">>) THEN AddDays(now, 1)
       ELSE IF includes(lower, <<"day", "after", "tomorrow">>) THEN AddDays(now, 2)
       ELSE IF includes(lower, <<"next", "week">>) THEN AddDays(now, 7)
       ELSE IF includes(lower, <<"next", "month">>) THEN AddMonth(now)
       ELSE IF i # -1 THEN AddDays(now, DaysUntil(i, getDay(now.day)))
       ELSE ParseMonthDay(text, now)

(***************************************************************************)
(* Regular-expression helpers on token sequences.                          *)
(***************************************************************************)
Min(S) == CHOOSE x \in S : \A y \in S : x <= y

IsBlank(t) == t = "\n"

RECURSIVE TrimLeft(_)
TrimLeft(s) == IF s # <<>> /\ IsBlank(Head(s)) THEN TrimLeft(Tail(s)) ELSE s

RECURSIVE TrimRight(_)
TrimRight(s) ==
    IF s # <<>> /\ IsBlank(s[Len(s)]) THEN TrimRight(SubSeq(s, 1, Len(s) - 1)) ELSE s

\* String.trim
trim(s) == TrimRight(TrimLeft(s))

NoMatch == [found |-> FALSE, value |-> <<>>]

\* response.match(/LABEL:\s*(.+?)(?=STOP:|$)/s), giving match[1].trim(): the section
\* starts after the first LABEL that has text behind it and ends before the first
\* STOP behind its first token, or at the end of the text.
SectionMatch(resp, label, stops) ==
    LET starts == {i \in 1..(Len(resp) - 1) : resp[i] = label}
    IN IF starts = {} THEN NoMatch
       ELSE LET i == Min(starts)
                rest == SubSeq(resp, i + 1, Len(resp))
                body == TrimLeft(rest)
                from == IF body = <<>> THEN Len(resp) ELSE Len(resp) - Len(body) + 1
                ends == {k \in (from + 1)..Len(resp) : resp[k] \in stops}
                to == IF ends = {} THEN Len(resp) ELSE Min(ends) - 1
            IN [found |-> TRUE, value |-> trim(SubSeq(resp, from, to))]

\* The pieces of a text cut at the tokens of seps.  lead tells that a piece follows a
\* comma, that is, starts with a blank.
RECURSIVE SplitFrom(_, _, _, _)
SplitFrom(s, seps, cur, lead) ==
    IF s = <<>> THEN <<[toks |-> cur, lead |-> lead]>>
    ELSE IF Head(s) \in seps
         THEN <<[toks |-> cur, lead |-> lead]>>
                  \o SplitFrom(Tail(s), seps, <<>>, Head(s) = ",")
         ELSE SplitFrom(Tail(s), seps, Append(cur, Head(s)), lead)

split(s, seps) == SplitFrom(s, seps, <<>>, FALSE)

\* pieces.filter(l => l.trim())
NonEmptyPiece(pc) == trim(pc.toks) # <<>>

NonEmptyPieces(pieces) == SelectSeq(pieces, NonEmptyPiece)

\* [...new Set(list)]: the distinct elements in first-seen order
RECURSIVE Unique(_)
Unique(s) ==
    IF s = <<>> THEN <<>>
    ELSE LET init == Unique(SubSeq(s, 1, Len(s) - 1))
             last == s[Len(s)]
         IN IF \E i \in 1..Len(init) : init[i] = last THEN init ELSE Append(init, last)

\* list.join(', ')
RECURSIVE join(_)
join(list) ==
    IF list = <<>> THEN <<>>
    ELSE IF Len(list) = 1 THEN list[1]
    ELSE list[1] \o <<",">> \o join(Tail(list))

\* The matches of /(?:jan|feb|...|dec)[a-z]*\s+\d{1,2}(?:st|nd|rd|th)?/gi, in order.
RECURSIVE dateRegexMatches(_)
dateRegexMatches(text) ==
    IF Len(text) < 2 THEN <<>>
    ELSE IF IsMonthName(text[1]) /\ IsDayToken(text[2])
         THEN <<SubSeq(text, 1, 2)>> \o dateRegexMatches(SubSeq(text, 3, Len(text)))
         ELSE dateRegexMatches(Tail(text))

\* line.replace(/^-\s*|^[..]\s*/, '').trim(): the bullet goes only when it is the very
\* first character of the line.
CleanLine(pc) ==
    IF ~pc.lead /\ pc.toks # <<>> /\ Head(pc.toks) = "-"
    THEN trim(Tail(pc.toks))
    ELSE trim(pc.toks)

\* text.split(/\n|,/).filter(l => l.trim()) with every line cleaned
MentionLines(text) ==
    LET pieces == NonEmptyPieces(split(text, {",", "\n"}))
    IN [i \in 1..Len(pieces) |-> CleanLine(pieces[i])]

(***************************************************************************)
(* ConversationRecorder: the text given to the models and to the regular   *)
(* expressions.  A turn is [speaker, text], both token sequences.          *)
(***************************************************************************)
\* `${c.speaker}: "${c.text}"`
TurnLine(c) == c.speaker \o <<":", "\"">> \o c.text \o <<"\"">>

\* convos.map(c => `${c.speaker}: "${c.text}"`).join('\n')
RECURSIVE conversationText(_)
conversationText(convos) ==
    IF convos = <<>> THEN <<>>
    ELSE IF Len(convos) = 1 THEN TurnLine(convos[1])
    ELSE TurnLine(convos[1]) \o <<"\n">> \o conversationText(Tail(convos))

NoVisitor == [known |-> FALSE, name |-> <<>>, relation |-> <<>>]

Visitor(name, relation) == [known |-> TRUE, name |-> name, relation |-> relation]

\* visitorInfo?.name || 'the visitor'
visitorNameOf(v) == IF v.known /\ v.name # <<>> THEN v.name ELSE <<"the", "visitor">>

\* visitorInfo?.relation || 'someone'
visitorRelationOf(v) == IF v.known /\ v.relation # <<>> THEN v.relation ELSE <<"someone">>

(***************************************************************************)
(* generateMockResponse                                                    *)
(***************************************************************************)
None == <<"None">>

\* text.match(/((?:today|tomorrow|next week|next month))/i): the leftmost match
relMatch(text) ==
    LET lower == toLowerCase(text)
        one == {i \in 1..Len(text) : lower[i] \in {"today", "tomorrow"}}
        two == {i \in 1..(Len(text) - 1) :
                    lower[i] = "next" /\ lower[i + 1] \in {"week", "month"}}
    IN IF one \cup two = {} THEN <<>>
       ELSE LET i == Min(one \cup two)
            IN IF i \in one THEN <<text[i]>> ELSE SubSeq(text, i, i + 1)

\* A variant that looks for a relative date first.
mockDateOfRelativeFirst(text) ==
    LET matches == dateRegexMatches(text)
    IN IF relMatch(text) # <<>> THEN relMatch(text)
       ELSE IF matches # <<>> THEN join(Unique(matches))
       ELSE None

mockDateOf(text) ==
    LET matches == dateRegexMatches(text)
    IN IF matches # <<>> THEN join(Unique(matches))
       ELSE IF relMatch(text) # <<>> THEN relMatch(text)
       ELSE None

mockActionOf(text) ==
    LET lowerText == toLowerCase(text)
    IN IF \/ includes(lowerText, <<"remind">>)
          \/ includes(lowerText, <<"remember">>)
          \/ includes(lowerText, <<"don't", "forget">>)
       THEN text
       ELSE None

generateMockResponse(text, visitorName, visitorRelation) ==
    LET mockDate == mockDateOf(text)
        mockAction == mockActionOf(text)
    IN <<"\n", "VISITOR:">> \o visitorName \o <<",">> \o visitorRelation
       \o <<"\n", "SUMMARY:", "You had a conversation with">> \o visitorName
       \o <<"You discussed">>
       \o (IF mockDate # None THEN <<"dates:">> \o mockDate ELSE <<"various topics">>)
       \o <<"\n", "DATES:">> \o mockDate
       \o <<"\n", "ACTIONS:">> \o mockAction \o <<"\n">>

(***************************************************************************)
(* analyzeConversation: parsing the response                               *)
(***************************************************************************)
visitorMatch(response) == SectionMatch(response, "VISITOR:", {"SUMMARY:"})

summaryMatch(response) == SectionMatch(response, "SUMMARY:", {"DATES:"})

\* /ACTIONS:\s*(.+?)$/s runs to the end of the response
actionsMatch(response) == SectionMatch(response, "ACTIONS:", {})

\* /TRANSCRIPT:\s*(.+)$/s
transcriptMatch(response) == SectionMatch(response, "TRANSCRIPT:", {})

\* existingDates.split(',').map(d => d.trim()).filter(d => d)
existingDateArray(existingDates) ==
    LET pieces == NonEmptyPieces(split(existingDates, {","}))
    IN [i \in 1..Len(pieces) |-> trim(pieces[i].toks)]

\* The hybrid merge of the model's DATES with the dates the regular expression finds
\* in the conversation text.
datesMatch(response, text) ==
    LET m == SectionMatch(response, "DATES:", {"ACTIONS:"})
        regexMatches == dateRegexMatches(text)
        uniqueRegexDates == Unique(regexMatches)
        combinedDates ==
            IF m.found
            THEN IF includes(toLowerCase(m.value), <<"none">>)
                 THEN join(uniqueRegexDates)
                 ELSE join(Unique(existingDateArray(m.value) \o uniqueRegexDates))
            ELSE join(uniqueRegexDates)
    IN IF regexMatches # <<>> /\ combinedDates # <<>>
       THEN [found |-> TRUE, value |-> combinedDates]
       ELSE m

\* The lines a section's text yields, or none when the text says "none".
LinesOf(m) ==
    IF m.found /\ m.value # <<>> /\ ~includes(toLowerCase(m.value), <<"none">>)
    THEN MentionLines(m.value)
    ELSE <<>>

dateLines(response, text) == LinesOf(datesMatch(response, text))

actionLines(response) == LinesOf(actionsMatch(response))

\* The visitor the VISITOR section names; the closure's visitorInfo otherwise.
extractedVisitor(response, visitorInfo) ==
    LET m == visitorMatch(response)
        parts == split(m.value, {","})
    IN IF m.found /\ ~includes(toLowerCase(m.value), <<"unknown">>)
       THEN Visitor(trim(parts[1].toks),
                    IF Len(parts) > 1 THEN trim(parts[2].toks) ELSE <<"visitor">>)
       ELSE visitorInfo

\* line.match(/^(.+?):\s*"(.*)"$/)
TranscriptLine(line) ==
    LET colons == {k \in 2..Len(line) : line[k] = ":"}
        k == Min(colons)
    IN IF /\ colons # {}
          /\ Len(line) >= k + 2
          /\ line[k + 1] = "\""
          /\ line[Len(line)] = "\""
       THEN [found |-> TRUE, speaker |-> trim(SubSeq(line, 1, k - 1)),
             text |-> trim(SubSeq(line, k + 2, Len(line) - 1))]
       ELSE [found |-> FALSE, speaker |-> <<>>, text |-> <<>>]

\* A variant that appends the transcript lines that have no turn.
correctTranscriptAppending(prev, response) ==
    LET m == transcriptMatch(response)
        lines == split(m.value, {"\n"})
    IN IF ~m.found THEN prev
       ELSE [idx \in 1..(IF Len(lines) > Len(prev) THEN Len(lines) ELSE Len(prev)) |->
                IF idx <= Len(lines) /\ TranscriptLine(lines[idx].toks).found
                THEN [speaker |-> TranscriptLine(lines[idx].toks).speaker,
                      text |-> TranscriptLine(lines[idx].toks).text,
                      timestamp |-> idx]
                ELSE IF idx <= Len(prev) THEN prev[idx]
                     ELSE [speaker |-> <<"You">>, text |-> lines[idx].toks,
                           timestamp |-> idx]]

\* A variant that rebuilds the corrected turn with a fresh timestamp.
correctTranscriptRestamping(prev, response) ==
    LET m == transcriptMatch(response)
        lines == split(m.value, {"\n"})
    IN IF ~m.found THEN prev
       ELSE [idx \in 1..Len(prev) |->
                IF idx <= Len(lines) /\ TranscriptLine(lines[idx].toks).found
                THEN [speaker |-> TranscriptLine(lines[idx].toks).speaker,
                      text |-> TranscriptLine(lines[idx].toks).text,
                      timestamp |-> 0]
                ELSE prev[idx]]

\* The transcript correction: line idx overwrites turn idx.
correctTranscript(prev, response) ==
    LET m == transcriptMatch(response)
        lines == split(m.value, {"\n"})
    IN IF ~m.found THEN prev
       ELSE [idx \in 1..Len(prev) |->
                IF idx <= Len(lines) /\ TranscriptLine(lines[idx].toks).found
                THEN [prev[idx] EXCEPT
                         !.speaker = TranscriptLine(lines[idx].toks).speaker,
                         !.text = TranscriptLine(lines[idx].toks).text]
                ELSE prev[idx]]

(***************************************************************************)
(* Task extraction in handleSpeechResult and toggleListening.  A task is   *)
(* the string given to onDateDetected: a mark, a blank and the tokens.     *)
(* The marks are the characters the source files hold in front of the      *)
(* template; the recorder's file and App's file spell them differently.    *)
(***************************************************************************)
\* The characters in front of a date task and of an action task in the recorder.
RecorderDateMark == <<"U+F8FF", "U+00FC", "U+00EC", "U+00D6">>

RecorderActionMark == <<"U+201A", "U+00FA", "U+00D6">>

\* The characters App looks for in event.includes(...) and strips with
\* event.replace(/^[...]\s*/, '').
AppDateMark == <<"U+00F0", "U+0178", "U+201C", "U+2026">>

AppMarkClass == {"U+00F0", "U+0178", "U+201C", "U+2026", "U+00E2", "U+0153"}

\* `<mark> ${taskName} on ${timeInfo}`
DateTask(name, timeInfo) ==
    [mark |-> RecorderDateMark, text |-> name \o <<"on">> \o timeInfo]

\* `<mark> ${match[1].trim()}`
ActionTask(what) == [mark |-> RecorderActionMark, text |-> what]

\* The piece of a word that a cut in the middle of it leaves.
PartialWord == "(part of a word)"

\* The number of characters of a token.
WordLength(t) ==
    CASE t \in {"5"} -> 1
      [] t \in {"on", "me", "to", "or", "16"} -> 2
      [] t \in {"see", "you", "and", "bye", "Feb", "Mar", PartialWord} -> 3
      [] t \in {"call", "soon"} -> 4
      [] t \in {"lunch"} -> 5
      [] t \in {"remind", "Friday"} -> 6
      [] t \in {"tomorrow"} -> 8

\* The tokens that consist of letters only.
IsLetters(t) ==
    t \in {"on", "me", "to", "or", "see", "you", "and", "bye", "Feb", "Mar", "call", "soon",
           "lunch", "remind", "Friday", "tomorrow"}

\* The length of the tokens joined by single blanks.
RECURSIVE CharLength(_)
CharLength(toks) ==
    IF toks = <<>> THEN 0
    ELSE IF Len(toks) = 1 THEN WordLength(toks[1])
    ELSE WordLength(Head(toks)) + 1 + CharLength(Tail(toks))

Weekdays ==
    {"monday", "tuesday", "wednesday", "thursday", "friday", "saturday", "sunday"}

RelativeTerms == {"tomorrow", "tonight", "today"}

\* timeTerms: the alternatives of one word
SingleTimeTerms == RelativeTerms \cup Weekdays \cup (DOMAIN MonthNames \ {"sept"})

\* The number of tokens the time expression at token k takes, 0 when there is none:
\* (timeTerms(?:\s+\d{1,2}(?:st|nd|rd|th)?)?)
TimeTermLength(seg, k) ==
    LET base == IF k <= Len(seg) /\ Lower(seg[k]) \in SingleTimeTerms THEN 1
                ELSE IF /\ k + 1 <= Len(seg)
                        /\ Lower(seg[k]) = "next"
                        /\ Lower(seg[k + 1]) \in {"week", "month"}
                     THEN 2
                     ELSE 0
    IN IF base = 0 THEN 0
       ELSE IF k + base <= Len(seg) /\ IsDayToken(seg[k + base]) THEN base + 1
       ELSE base

\* The tokens e at which a task name that starts at token s can end: letters and
\* blanks only, 3 to limit characters, then on|at|by|for|this and a time expression.
NameEnds(seg, s, limit) ==
    {e \in s..(Len(seg) - 2) :
        /\ \A j \in s..e : IsLetters(seg[j])
        /\ CharLength(SubSeq(seg, s, e)) >= 3
        /\ CharLength(SubSeq(seg, s, e)) <= limit
        /\ Lower(seg[e + 1]) \in {"on", "at", "by", "for", "this"}
        /\ TimeTermLength(seg, e + 2) > 0}

Max(S) == CHOOSE x \in S : \A y \in S : y <= x

\* The leftmost match of dateRegex at or behind token p.  The name is taken greedily;
\* behind another token the match starts at the end of that token, so that the
\* blank counts among the 30 characters.
FirstDateMatch(seg, p) ==
    LET starts == {s \in p..Len(seg) : NameEnds(seg, s, 30) # {}}
        s == Min(starts)
        e == IF s > 1 /\ NameEnds(seg, s, 29) # {}
             THEN Max(NameEnds(seg, s, 29))
             ELSE Max(NameEnds(seg, s, 30))
    IN IF starts = {} THEN [found |-> FALSE, name |-> <<>>, time |-> <<>>, next |-> 0]
       ELSE [found |-> TRUE,
             name |-> SubSeq(seg, s, e),
             time |-> SubSeq(seg, e + 2, e + 1 + TimeTermLength(seg, e + 2)),
             next |-> e + 2 + TimeTermLength(seg, e + 2)]

\* taskName.length > 2 && !['what', 'when', 'how', 'going'].includes(...)
IsTaskName(name) ==
    /\ CharLength(name) > 2
    /\ toLowerCase(name) \notin {<<"what">>, <<"when">>, <<"how">>, <<"going">>}

\* while ((match = dateRegex.exec(cleanSegment)) !== null) ...
RECURSIVE DateTasksFrom(_, _)
DateTasksFrom(seg, p) ==
    LET From(m) ==
            IF ~m.found THEN <<>>
            ELSE (IF IsTaskName(m.name) THEN <<DateTask(m.name, m.time)>> ELSE <<>>)
                     \o DateTasksFrom(seg, m.next)
    IN From(FirstDateMatch(seg, p))

TriggerPhrases ==
    { <<"remember", "to">>, <<"don't", "forget", "to">>, <<"remind", "me", "to">> }

\* The text captured behind a trigger phrase that ends before token from:
\* ([a-zA-Z\s]{3,40}), the letters and blanks that follow, 40 characters at most.
ActionCapture(seg, from) ==
    LET ends == {e \in from..Len(seg) :
                    /\ \A j \in from..e : IsLetters(seg[j])
                    /\ CharLength(SubSeq(seg, from, e)) <= 40}
        e == Max(ends)
        cut == /\ e < Len(seg)
               /\ IsLetters(seg[e + 1])
               /\ CharLength(SubSeq(seg, from, e)) + 1 < 40
    IN IF ends = {} \/ CharLength(SubSeq(seg, from, e)) < 3
       THEN [found |-> FALSE, what |-> <<>>, next |-> 0]
       ELSE [found |-> TRUE,
             what |-> SubSeq(seg, from, e) \o (IF cut THEN <<PartialWord>> ELSE <<>>),
             next |-> IF cut THEN e + 2 ELSE e + 1]

\* The leftmost match of actionRegex at or behind token p.
FirstActionMatch(seg, p) ==
    LET Hit(k, phrase) ==
            /\ k + Len(phrase) - 1 <= Len(seg)
            /\ SubSeq(toLowerCase(seg), k, k + Len(phrase) - 1) = phrase
            /\ ActionCapture(seg, k + Len(phrase)).found
        hits == {k \in p..Len(seg) : \E phrase \in TriggerPhrases : Hit(k, phrase)}
        k == Min(hits)
        phrase == CHOOSE ph \in TriggerPhrases : Hit(k, ph)
    IN IF hits = {} THEN [found |-> FALSE, what |-> <<>>, next |-> 0]
       ELSE ActionCapture(seg, k + Len(phrase))

RECURSIVE ActionTasksFrom(_, _)
ActionTasksFrom(seg, p) ==
    LET From(m) ==
            IF ~m.found THEN <<>>
            ELSE <<ActionTask(m.what)>> \o ActionTasksFrom(seg, m.next)
    IN From(FirstActionMatch(seg, p))

\* text.split(/\b(?:and|then|also)\b/i), the empty segments skipped
Segments(text) ==
    LET pieces == split(text, {"and", "then", "also", "And", "Then", "Also"})
        HasText(pc) == pc.toks # <<>>
    IN SelectSeq(pieces, HasText)

\* The tasks of the segments in order: of each segment the date tasks, then the
\* action tasks.
RECURSIVE SegmentTasks(_)
SegmentTasks(segments) ==
    IF segments = <<>> THEN <<>>
    ELSE DateTasksFrom(Head(segments).toks, 1)
             \o ActionTasksFrom(Head(segments).toks, 1)
             \o SegmentTasks(Tail(segments))

\* handleSpeechResult: the tasks found in one transcript
realTimeTasks(transcript) == SegmentTasks(Segments(transcript))

\* conversations.map(c => c.text).join(' ')
RECURSIVE fullTextOf(_)
fullTextOf(convos) ==
    IF convos = <<>> THEN <<>> ELSE Head(convos).text \o fullTextOf(Tail(convos))

\* The matches of the three simpleDatePatterns in the order the loops visit them:
\* [at |-> token index, len |-> number of tokens].
SimpleMatches(text, which) ==
    LET Hit(k) ==
            CASE which = 1 ->
                    /\ Lower(text[k]) \in {"january", "february", "march", "april", "may",
                                           "june", "july", "august", "september",
                                           "october", "november", "december"}
                    /\ k + 1 <= Len(text) /\ IsDayToken(text[k + 1])
              [] which = 2 ->
                    \/ Lower(text[k]) \in RelativeTerms
                    \/ /\ k + 1 <= Len(text)
                       /\ Lower(text[k]) = "next"
                       /\ Lower(text[k + 1]) \in {"week", "month"}
              [] which = 3 -> Lower(text[k]) \in Weekdays
        IsHit(k) == Hit(k)
        width(k) == IF which = 1 \/ (which = 2 /\ Lower(text[k]) = "next") THEN 2 ELSE 1
        at == SelectSeq([k \in 1..Len(text) |-> k], IsHit)
    IN [i \in 1..Len(at) |-> [at |-> at[i], len |-> width(at[i])]]

\* words.slice(-3) of the 30 characters in front of token k: the words of more than
\* two characters among them; the window may begin inside a word.
ContextBefore(text, k) ==
    LET Fits(j) == CharLength(SubSeq(text, j, k - 1)) + 1 <= 30
        whole == {j \in 1..(k - 1) : Fits(j)}
        j == IF whole = {} THEN k ELSE Min(whole)
        room == 30 - (IF j = k THEN 0 ELSE CharLength(SubSeq(text, j, k - 1)) + 1)
        part == IF j > 1 /\ room - 1 > 2 THEN <<PartialWord>> ELSE <<>>
        LongEnough(w) == WordLength(w) > 2
        words == SelectSeq(part \o SubSeq(text, j, k - 1), LongEnough)
    IN SubSeq(words, IF Len(words) > 3 THEN Len(words) - 2 ELSE 1, Len(words))

\* The fallback of toggleListening for one match: nothing when a task found so far
\* holds the date string, else the context task.
FallbackTask(text, m, foundTasks) ==
    LET dateStr == SubSeq(text, m.at, m.at + m.len - 1)
        caught == \E i \in 1..Len(foundTasks) :
                      includes(toLowerCase(foundTasks[i].text), toLowerCase(dateStr))
        context == ContextBefore(text, m.at)
        task == IF CharLength(context) > 3
                THEN DateTask(context, dateStr)
                ELSE DateTask(<<"Action">>, dateStr)
    IN IF caught \/ (\E i \in 1..Len(foundTasks) : foundTasks[i] = task)
       THEN foundTasks
       ELSE Append(foundTasks, task)

RECURSIVE FallbackTasks(_, _, _)
FallbackTasks(text, matches, foundTasks) ==
    IF matches = <<>> THEN foundTasks
    ELSE FallbackTasks(text, Tail(matches), FallbackTask(text, Head(matches), foundTasks))

\* toggleListening on stop: the tasks found in the whole conversation
stopTasks(convos) ==
    LET TasksOf(text) ==
            FallbackTasks(text,
                          SimpleMatches(text, 1) \o SimpleMatches(text, 2)
                              \o SimpleMatches(text, 3),
                          Unique(SegmentTasks(Segments(text))))
    IN TasksOf(fullTextOf(convos))

(***************************************************************************)
(* MemoryDashboard: the mock data of seedMockData.                         *)
(***************************************************************************)
mockNames == {"Arjun Sharma", "Priya Patel", "Rajesh Kumar", "Ananya Iyer"}

mockIds == {"mock-arjun", "mock-priya", "mock-rajesh", "mock-ananya"}

mockPeople ==
    << [id |-> "mock-arjun", name |-> "Arjun Sharma", faceImage |-> TRUE],
       [id |-> "mock-priya", name |-> "Priya Patel", faceImage |-> TRUE],
       [id |-> "mock-rajesh", name |-> "Rajesh Kumar", faceImage |-> TRUE],
       [id |-> "mock-ananya", name |-> "Ananya Iyer", faceImage |-> TRUE] >>

\* participants of the three mockConvos
mockConvos == <<"Arjun Sharma", "Priya Patel", "Ananya Iyer">>

EmptyStores == [conversations |-> <<>>, people |-> {}]

\* db.put('people', person): the record replaces the one with its key
PutPerson(people, person) == {q \in people : q.id # person.id} \cup {person}

\* needsImages of loadAllData
needsImages(people) ==
    /\ people # {}
    /\ \E q \in people : ~q.faceImage /\ q.name \in mockNames

VARIABLES
    \* App
    primaryModel,       \* state: the primary model handle is set
    backupModel,        \* state: the backup model handle is set
    cameraReady,        \* state
    isAutoScanEnabled,  \* state
    isAnalyzingRef,     \* ref: a scene analysis is running
    isAnalyzing,        \* state mirroring the ref
    status,             \* state
    quotaHit,           \* state
    identifiedPerson,   \* state
    nudges,             \* state
    memoryLog,          \* state: newest first
    history,            \* state: number of lines appended to the history text
    lastSummaryRef,     \* ref
    lastConversationSummary, \* state
    lastVisitorInfo,    \* state
    tasks,              \* state: the task list
    sceneCalls,         \* runAnalysis invocations awaiting analyzeScene
    scans,              \* number of runAnalysis invocations that passed the guards
    \* ConversationRecorder
    isListening,        \* state
    conversations,      \* state: the turns
    isProcessing,       \* state
    lastSummary,        \* state
    visitorInfo,        \* state
    currentSpeaker,     \* state and currentSpeakerRef
    isManualSwitchRef,  \* ref
    primarySpeakerRef,  \* ref: <<>> is null
    sinceChange,        \* Date.now() - lastSpeakerChangeTimeRef: "recent" or "long"
    convCalls,          \* analyzeConversation invocations awaiting a model
    analyses,           \* number of analyzeConversation invocations that passed the guard
    turns,              \* number of speech results delivered
    toggles,            \* number of presses of the microphone button
    \* memoryDatabase
    dates,              \* the dates object store, in insertion order
    pendingAdds,        \* addDate calls whose db.add has not completed
    nextId,             \* generateId
    failures,           \* number of db.add calls that failed
    stores,             \* the conversations and the people object stores
    loads,              \* MemoryDashboard: the runs of loadAllData
    lastBatch,          \* the ids of the addDate calls of the last response parsed
    \* React
    rendered,           \* the state values captured by the last committed render
    dirty,              \* the effects whose dependencies were set since that render
    \* the clock and the date parser
    now,                \* new Date(): the reference time
    parsed              \* a mention text given to parseDateFromText, and its result

envVars == <<primaryModel, backupModel, cameraReady, isAutoScanEnabled>>

sceneState == <<isAnalyzingRef, isAnalyzing, status, quotaHit, nudges, memoryLog,
                lastSummaryRef>>

sceneVars == <<sceneState, sceneCalls, scans>>

speakerVars == <<currentSpeaker, isManualSwitchRef, primarySpeakerRef, sinceChange>>

convState == <<isListening, conversations, isProcessing, lastSummary, visitorInfo>>

convVars == <<convState, speakerVars, convCalls, analyses, turns, toggles>>

sharedVars == <<identifiedPerson, history, lastConversationSummary, lastVisitorInfo,
                tasks>>

dbVars == <<dates, pendingAdds, nextId, failures, stores, loads>>

batchVars == <<lastBatch>>

reactVars == <<rendered, dirty>>

dateVars == <<now, parsed>>

appVars == <<envVars, sceneVars, convVars, sharedVars, dbVars, batchVars, reactVars>>

vars == <<appVars, dateVars>>

(***************************************************************************)
(* Helpers on sequences.                                                   *)
(***************************************************************************)
Take(s, n) == SubSeq(s, 1, IF Len(s) < n THEN Len(s) ELSE n)

RemoveAt(s, i) == SubSeq(s, 1, i - 1) \o SubSeq(s, i + 1, Len(s))

\* The reference time of the application runs: Sunday 15 Feb 2026, during the day.
RefNow == [day |-> DayNumber(2026, 1, 15), tod |-> 1]

NoParse == [text |-> <<>>, done |-> FALSE, result |-> RefNow]

\* What the closures of a render capture.
Snapshot ==
    [isAnalyzing |-> isAnalyzing, isProcessing |-> isProcessing,
     isListening |-> isListening, conversations |-> conversations,
     lastSummary |-> lastSummary, visitorInfo |-> visitorInfo,
     currentSpeaker |-> currentSpeaker, identifiedPerson |-> identifiedPerson]

NoDirty == [visitorInfo |-> FALSE, identifiedPerson |-> FALSE]

AppInit ==
    /\ primaryModel = FALSE
    /\ backupModel = FALSE
    /\ cameraReady = FALSE
    /\ isAutoScanEnabled = FALSE
    /\ isAnalyzingRef = FALSE
    /\ isAnalyzing = FALSE
    /\ status = "Standby"
    /\ quotaHit = FALSE
    /\ identifiedPerson = NoPerson
    /\ nudges = <<>>
    /\ memoryLog = <<>>
    /\ history = 0
    /\ lastSummaryRef = <<>>
    /\ lastConversationSummary = <<>>
    /\ lastVisitorInfo = NoVisitor
    /\ tasks = <<>>
    /\ sceneCalls = <<>>
    /\ scans = 0
    /\ isListening = FALSE
    /\ conversations = <<>>
    /\ isProcessing = FALSE
    /\ lastSummary = <<>>
    /\ visitorInfo = NoVisitor
    /\ currentSpeaker = "You"
    /\ isManualSwitchRef = FALSE
    /\ primarySpeakerRef = ""
    /\ sinceChange = "recent"
    /\ convCalls = <<>>
    /\ analyses = 0
    /\ turns = 0
    /\ toggles = 0
    /\ dates = <<>>
    /\ pendingAdds = <<>>
    /\ nextId = 1
    /\ failures = 0
    /\ stores = EmptyStores
    /\ loads = <<>>
    /\ lastBatch = {}
    /\ rendered = [isAnalyzing |-> FALSE, isProcessing |-> FALSE,
                   isListening |-> FALSE, conversations |-> <<>>,
                   lastSummary |-> <<>>, visitorInfo |-> NoVisitor,
                   currentSpeaker |-> "You", identifiedPerson |-> NoPerson]
    /\ dirty = NoDirty

Init ==
    /\ AppInit
    /\ now = RefNow
    /\ parsed = NoParse

(***************************************************************************)
(* App: the models are created once the app is activated.  The backup      *)
(* handle is a nullable parameter of analyzeScene and a nullable prop of   *)
(* ConversationRecorder; both cases are drawn here.                        *)
(***************************************************************************)
InitModels ==
    /\ ~primaryModel
    /\ \E b \in BOOLEAN : backupModel' = b
    /\ primaryModel' = TRUE
    /\ status' = "Watching"
    /\ UNCHANGED <<cameraReady, isAutoScanEnabled, isAnalyzingRef, isAnalyzing, quotaHit,
                   nudges, memoryLog, lastSummaryRef, sceneCalls, scans>>
    /\ UNCHANGED <<convVars, sharedVars, dbVars, lastBatch, reactVars, dateVars>>

OnUserMedia ==
    /\ ~cameraReady
    /\ cameraReady' = TRUE
    /\ UNCHANGED <<primaryModel, backupModel, isAutoScanEnabled>>
    /\ UNCHANGED <<sceneVars, convVars, sharedVars, dbVars, lastBatch, reactVars, dateVars>>

ToggleAutoScan ==
    /\ isAutoScanEnabled' = ~isAutoScanEnabled
    /\ UNCHANGED <<primaryModel, backupModel, cameraReady>>
    /\ UNCHANGED <<sceneVars, convVars, sharedVars, dbVars, lastBatch, reactVars, dateVars>>

(***************************************************************************)
(* runAnalysis up to its await: the guards, the screenshot, the flags and  *)
(* the synchronous start of analyzeScene, which invokes the primary model. *)
(***************************************************************************)
NewSceneCall == [pc |-> "primary", pInv |-> 1, bInv |-> 0, pErr |-> NoError,
                 bErr |-> NoError, result |-> FailureResult(<<>>, FALSE)]

\* A variant that reads the state captured by the render instead of the ref.
RunAnalysisGuardOnState == primaryModel /\ ~rendered.isAnalyzing /\ cameraReady

RunAnalysisGuard == primaryModel /\ ~isAnalyzingRef /\ cameraReady

runAnalysis(shot) ==
    IF RunAnalysisGuard /\ shot
    THEN /\ scans < MaxScans
         /\ Len(sceneCalls) < MaxCalls
         /\ isAnalyzingRef' = TRUE
         /\ isAnalyzing' = TRUE
         /\ quotaHit' = FALSE
         /\ status' = "Analyzing..."
         /\ sceneCalls' = Append(sceneCalls, NewSceneCall)
         /\ scans' = scans + 1
         /\ UNCHANGED <<nudges, memoryLog, lastSummaryRef>>
    ELSE UNCHANGED sceneVars

\* The auto-scan interval or the initial timeout fires.
AutoScanTimer ==
    /\ primaryModel /\ cameraReady /\ isAutoScanEnabled
    /\ \E shot \in BOOLEAN : runAnalysis(shot)
    /\ UNCHANGED <<envVars, convVars, sharedVars, dbVars, lastBatch, reactVars, dateVars>>

\* The Scan Now button.
handleManualAnalysis ==
    /\ primaryModel /\ ~rendered.isAnalyzing /\ cameraReady
    /\ \E shot \in BOOLEAN : runAnalysis(shot)
    /\ UNCHANGED <<envVars, convVars, sharedVars, dbVars, lastBatch, reactVars, dateVars>>

(***************************************************************************)
(* analyzeScene: the models answer.                                        *)
(***************************************************************************)
SceneStep(i, c) ==
    /\ sceneCalls' = [sceneCalls EXCEPT ![i] = c]
    /\ UNCHANGED <<envVars, sceneState, scans, convVars, sharedVars, dbVars, lastBatch, reactVars,
                   dateVars>>

\* A variant that goes on to the backup model after the primary has answered.
AfterPrimarySuccessThenBackup(c, j) ==
    [c EXCEPT !.pc = "backup", !.bInv = c.bInv + 1]

\* The primary model answers: its result is returned as it is.
AfterPrimarySuccess(c, j) ==
    [c EXCEPT !.pc = "returned", !.result = FromJson(j, FALSE)]

ScenePrimarySucceeds ==
    \E i \in 1..Len(sceneCalls), j \in SceneJson :
        /\ sceneCalls[i].pc = "primary"
        /\ SceneStep(i, AfterPrimarySuccess(sceneCalls[i], j))

\* A variant that gives up after the primary model without trying the backup.
AfterPrimaryFailureWithoutBackup(c, m) ==
    [c EXCEPT !.pc = "returned", !.pErr = m, !.result = PrimaryFailedResult(m)]

\* The primary model fails; the backup is invoked when there is one.
AfterPrimaryFailure(c, m) ==
    IF backupModel
    THEN [c EXCEPT !.pc = "backup", !.pErr = m, !.bInv = c.bInv + 1]
    ELSE [c EXCEPT !.pc = "returned", !.pErr = m, !.result = PrimaryFailedResult(m)]

ScenePrimaryFails ==
    \E i \in 1..Len(sceneCalls), m \in ErrMsgs :
        /\ sceneCalls[i].pc = "primary"
        /\ SceneStep(i, AfterPrimaryFailure(sceneCalls[i], m))

SceneBackupSucceeds ==
    \E i \in 1..Len(sceneCalls), j \in SceneJson :
        /\ sceneCalls[i].pc = "backup"
        /\ SceneStep(i, [sceneCalls[i] EXCEPT !.pc = "returned",
                                              !.result = FromJson(j, TRUE)])

AfterBackupFailure(c, m) ==
    [c EXCEPT !.pc = "returned", !.bErr = m, !.result = BothFailedResult(c.pErr, m)]

SceneBackupFails ==
    \E i \in 1..Len(sceneCalls), m \in ErrMsgs :
        /\ sceneCalls[i].pc = "backup"
        /\ SceneStep(i, AfterBackupFailure(sceneCalls[i], m))

(***************************************************************************)
(* runAnalysis after its await: the result is applied to the App state and *)
(* the finally block clears the flags.                                     *)
(***************************************************************************)
OrDefault(s, d) == IF s = "" THEN d ELSE s

LogScene(entry) == Take(<<entry>> \o memoryLog, 5)

PersonOf(r) ==
    [name |-> OrDefault(r.name, "Unknown"),
     relation |-> OrDefault(r.relation, "New Contact"),
     summary |-> IF r.summary = <<>> THEN <<"No previous conversation found.">>
                 ELSE r.summary]

\* A variant without the early return for a quota-exceeded result: the result is
\* applied like any other after the flag and the advisory.
ApplySceneResultWithoutReturn(r) ==
    /\ status' = "Watching"
    /\ nudges' = IF Len(r.nudges) > 0 THEN r.nudges ELSE nudges
    /\ quotaHit' = (quotaHit \/ r.isQuotaExceeded)
    /\ IF r.personIdentified
       THEN /\ identifiedPerson' = PersonOf(r)
            /\ dirty' = [dirty EXCEPT !.identifiedPerson = TRUE]
            /\ history' = history + 1
            /\ memoryLog' = LogScene(<<"Identified ", r.name>>)
            /\ lastSummaryRef' = <<>>
       ELSE /\ identifiedPerson' = NoPerson
            /\ UNCHANGED <<history, dirty>>
            /\ IF r.isQuotaExceeded
               THEN /\ memoryLog' = LogScene(<<"Quota Exceeded - Please wait a minute">>)
                    /\ lastSummaryRef' = r.summary
               ELSE IF r.summary # <<>> /\ r.summary # lastSummaryRef
                    THEN /\ memoryLog' = LogScene(r.summary)
                         /\ lastSummaryRef' = r.summary
                    ELSE UNCHANGED <<memoryLog, lastSummaryRef>>

ApplySceneResult(r) ==
    IF r.isQuotaExceeded
    THEN /\ quotaHit' = TRUE
         /\ memoryLog' = LogScene(<<"Quota Exceeded - Please wait a minute">>)
         /\ UNCHANGED <<identifiedPerson, nudges, history, lastSummaryRef, status, dirty>>
    ELSE /\ status' = "Watching"
         /\ nudges' = IF Len(r.nudges) > 0 THEN r.nudges ELSE nudges
         /\ UNCHANGED quotaHit
         /\ IF r.personIdentified
            THEN /\ identifiedPerson' = PersonOf(r)
                 /\ dirty' = [dirty EXCEPT !.identifiedPerson = TRUE]
                 /\ history' = history + 1
                 /\ memoryLog' = LogScene(<<"Identified ", r.name>>)
                 /\ lastSummaryRef' = <<>>
            ELSE /\ identifiedPerson' = NoPerson
                 /\ UNCHANGED <<history, dirty>>
                 /\ IF r.summary # <<>> /\ r.summary # lastSummaryRef
                    THEN /\ memoryLog' = LogScene(r.summary)
                         /\ lastSummaryRef' = r.summary
                    ELSE UNCHANGED <<memoryLog, lastSummaryRef>>

\* A variant without the finally block: the return of the quota branch leaves the
\* flags as they are.
runAnalysisResumeWithoutFinally ==
    \E i \in 1..Len(sceneCalls) :
        /\ sceneCalls[i].pc = "returned"
        /\ sceneCalls' = RemoveAt(sceneCalls, i)
        /\ IF sceneCalls[i].result.isQuotaExceeded
           THEN UNCHANGED <<isAnalyzingRef, isAnalyzing>>
           ELSE isAnalyzingRef' = FALSE /\ isAnalyzing' = FALSE
        /\ ApplySceneResult(sceneCalls[i].result)
        /\ UNCHANGED <<envVars, scans, convVars, lastConversationSummary, lastVisitorInfo,
                       tasks, dbVars, lastBatch, rendered, dateVars>>

runAnalysisResume ==
    \E i \in 1..Len(sceneCalls) :
        /\ sceneCalls[i].pc = "returned"
        /\ sceneCalls' = RemoveAt(sceneCalls, i)
        /\ isAnalyzingRef' = FALSE
        /\ isAnalyzing' = FALSE
        /\ ApplySceneResult(sceneCalls[i].result)
        /\ UNCHANGED <<envVars, scans, convVars, lastConversationSummary, lastVisitorInfo,
                       tasks, dbVars, lastBatch, rendered, dateVars>>

(***************************************************************************)
(* ConversationRecorder: what is said, and what the models answer.         *)
(***************************************************************************)
\* What the speech recogniser delivers while the recorder runs.
Utterances == { <<"see", "you", "tomorrow">> }

\* A response in the format the prompt asks for.
WellFormedResponse ==
    <<"VISITOR:", "Jane", ",", "Daughter", "\n", "SUMMARY:", "Good visit", "\n",
      "DATES:", "None", "\n", "ACTIONS:", "None">>

\* A response that lists one mention twice under DATES and once more under ACTIONS.
RepeatingResponse ==
    <<"VISITOR:", "Unknown", "visitor", "\n", "SUMMARY:", "You talked", "\n",
      "DATES:", "-", "lunch", "on", "Friday", "\n", "-", "lunch", "on", "Friday", "\n",
      "ACTIONS:", "call", "tomorrow", ",", "-", "lunch", "on", "Friday", "\n",
      "TRANSCRIPT:", "\n", "Jane", ":", "\"", "see", "you", "\"">>

\* A response whose transcript has three lines, the second not of the form
\* Speaker: "text".
CorrectingResponse ==
    <<"VISITOR:", "Jane", ",", "Daughter", "\n", "SUMMARY:", "Good visit", "\n",
      "DATES:", "None", "\n", "ACTIONS:", "None", "\n",
      "TRANSCRIPT:", "\n", "Jane", ":", "\"", "see", "you", "soon", "\"", "\n",
      "(unclear)", "\n", "You", ":", "\"", "bye", "\"">>

\* A response whose VISITOR value has two commas.
QualifiedVisitorResponse ==
    <<"VISITOR:", "Jane", ",", "Daughter", ",", "from", "Ohio", "\n",
      "SUMMARY:", "Good visit", "\n", "DATES:", "None", "\n", "ACTIONS:", "None">>

\* A response that lists its dates one per line.
BulletedDatesResponse ==
    <<"VISITOR:", "Unknown", "visitor", "\n", "SUMMARY:", "You talked", "\n",
      "DATES:", "-", "Feb", "16", "\n", "-", "lunch", "on", "Friday", "\n",
      "ACTIONS:", "None">>

\* A response without any of the labels.
UnlabelledResponse == <<"Sorry, I cannot help with that">>

\* What a model that succeeds answers while the recorder runs.
ModelResponses == {WellFormedResponse, UnlabelledResponse}

(***************************************************************************)
(* updateSpeaker                                                           *)
(***************************************************************************)
Other(speaker) == IF speaker = "You" THEN "Visitor" ELSE "You"

\* The speaker state after updateSpeaker(newSpeaker, manual).
updateSpeaker(sp, newSpeaker, manual) ==
    IF sp.currentSpeaker = newSpeaker /\ ~manual
    THEN sp
    ELSE [sp EXCEPT !.currentSpeaker = newSpeaker, !.sinceChange = "recent",
                    !.isManualSwitchRef = IF manual THEN TRUE ELSE sp.isManualSwitchRef]

SpeakerState ==
    [currentSpeaker |-> currentSpeaker, isManualSwitchRef |-> isManualSwitchRef,
     primarySpeakerRef |-> primarySpeakerRef, sinceChange |-> sinceChange]

SetSpeakerState(sp) ==
    /\ currentSpeaker' = sp.currentSpeaker
    /\ isManualSwitchRef' = sp.isManualSwitchRef
    /\ primarySpeakerRef' = sp.primarySpeakerRef
    /\ sinceChange' = sp.sinceChange

(***************************************************************************)
(* analyzeConversation up to its first await: the guard, the flag, the     *)
(* prompt and the invocation of the primary model.  c is the render whose  *)
(* closure runs.                                                           *)
(***************************************************************************)
NewConvCall(convos, c) ==
    [pc |-> "primary", text |-> conversationText(convos), visitorInfo |-> c.visitorInfo,
     pInv |-> 1, bInv |-> 0, pFailed |-> FALSE, bFailed |-> FALSE,
     response |-> <<>>, source |-> "none"]

AnalyzeGuard(convos, c) == primaryModel /\ Len(convos) > 0 /\ ~c.isProcessing

analyzeConversation(convos, c) ==
    IF AnalyzeGuard(convos, c)
    THEN /\ analyses < MaxAnalyses
         /\ Len(convCalls) < MaxCalls
         /\ isProcessing' = TRUE
         /\ convCalls' = Append(convCalls, NewConvCall(convos, c))
         /\ analyses' = analyses + 1
    ELSE UNCHANGED <<isProcessing, convCalls, analyses>>

(***************************************************************************)
(* onDateDetected in App and the removal of a task                         *)
(***************************************************************************)
\* event.replace(/^[<App's marks>]\s*/, ''): one character of the class goes, and
\* the blanks behind it when nothing of the mark is left.
cleanEvent(event) ==
    IF event.mark # <<>> /\ Head(event.mark) \in AppMarkClass
    THEN [event EXCEPT !.mark = Tail(event.mark)]
    ELSE event

\* event.includes(<App's date mark>) ? 'date' : 'action'
taskTypeOf(event) == IF includes(event.mark, AppDateMark) THEN "date" ELSE "action"

\* A variant of onDateDetected that appends without looking at the list.
AfterDateDetectedUnchecked(st, event) ==
    [tasks |-> Append(st.tasks, [id |-> CHOOSE n \in 1..(Len(st.tasks) + 1) :
                                           \A k \in 1..Len(st.tasks) : st.tasks[k].id # n,
                                  event |-> cleanEvent(event),
                                  type |-> taskTypeOf(event)]),
     memoryLog |-> Take(<<event.mark \o event.text>> \o st.memoryLog, 10)]

\* onDateDetected in App on the state st = [tasks, memoryLog]: the task is appended
\* unless its cleaned label is listed, and the event is logged.
AfterDateDetected(st, event) ==
    [tasks |-> IF \E k \in 1..Len(st.tasks) : st.tasks[k].event = cleanEvent(event)
               THEN st.tasks
               ELSE Append(st.tasks, [id |-> CHOOSE n \in 1..(Len(st.tasks) + 1) :
                                               \A k \in 1..Len(st.tasks) : st.tasks[k].id # n,
                                      event |-> cleanEvent(event),
                                      type |-> taskTypeOf(event)]),
     memoryLog |-> Take(<<event.mark \o event.text>> \o st.memoryLog, 10)]

\* foundTasks.forEach(task => onDateDetected(task))
RECURSIVE AfterDatesDetected(_, _)
AfterDatesDetected(st, events) ==
    IF events = <<>> THEN st
    ELSE AfterDatesDetected(AfterDateDetected(st, Head(events)), Tail(events))

\* The handler's deliveries to onDateDetected.
onDatesDetected(events) ==
    \E st \in {AfterDatesDetected([tasks |-> tasks, memoryLog |-> memoryLog], events)} :
        /\ tasks' = st.tasks
        /\ memoryLog' = st.memoryLog

\* The Done button of a listed task: setTasks(prev => prev.filter(t => t.id !== task.id))
removeTask ==
    /\ \E k \in 1..Len(tasks) :
           LET Others(t) == t.id # tasks[k].id
           IN tasks' = SelectSeq(tasks, Others)
    /\ UNCHANGED <<identifiedPerson, history, lastConversationSummary, lastVisitorInfo>>
    /\ UNCHANGED <<envVars, sceneVars, convVars, dbVars, lastBatch, reactVars, dateVars>>

\* The tasks and log entries the real-time extraction has delivered for turns
\* recorded so far.
RECURSIVE AfterTurnsHeard(_, _)
AfterTurnsHeard(st, convos) ==
    IF convos = <<>> THEN st
    ELSE AfterTurnsHeard(AfterDatesDetected(st, realTimeTasks(Head(convos).text)),
                         Tail(convos))

HeardSoFar(convos) == AfterTurnsHeard([tasks |-> <<>>, memoryLog |-> <<>>], convos)

(***************************************************************************)
(* handleSpeechResult: gap is the pause since the last speech result,      *)
(* 0: up to 1.2 s, 1: up to 4 s, 2: longer.                                *)
(***************************************************************************)
PauseExceeded(gap) == IF currentSpeaker = "You" THEN gap >= 1 ELSE gap >= 2

speakerNameOf(cur, c) ==
    IF c.identifiedPerson # NoPerson /\ c.identifiedPerson.name # primarySpeakerRef
    THEN <<c.identifiedPerson.name>>
    ELSE IF cur = "Visitor"
         THEN IF /\ c.visitorInfo.known
                 /\ c.visitorInfo.name # <<>>
                 /\ c.visitorInfo.name # <<"the", "visitor">>
              THEN c.visitorInfo.name
              ELSE <<"Visitor">>
         ELSE <<"You">>

speechResult(transcript, gap) ==
    LET c == rendered
        switch == PauseExceeded(gap) /\ Len(c.conversations) > 0
        sp == IF switch
              THEN [updateSpeaker(SpeakerState, Other(currentSpeaker), FALSE)
                        EXCEPT !.isManualSwitchRef = FALSE]
              ELSE SpeakerState
        \* timestamp: new Date(), the clock read as the ordinal of the utterance
        newEntry == [speaker |-> speakerNameOf(sp.currentSpeaker, c),
                     text |-> transcript,
                     timestamp |-> turns + 1]
        updated == Append(conversations, newEntry)
    IN /\ primaryModel /\ isListening
       /\ turns < MaxTurns
       /\ turns' = turns + 1
       /\ SetSpeakerState(sp)
       /\ conversations' = updated
       /\ IF Len(updated) % 3 = 0 \/ Len(updated) = 1
          THEN analyzeConversation(updated, c)
          ELSE UNCHANGED <<isProcessing, convCalls, analyses>>
       /\ onDatesDetected(realTimeTasks(transcript))
       /\ UNCHANGED <<isListening, lastSummary, visitorInfo, toggles>>
       /\ UNCHANGED <<isAnalyzingRef, isAnalyzing, status, quotaHit, nudges,
                      lastSummaryRef, sceneCalls, scans>>
       /\ UNCHANGED <<identifiedPerson, history, lastConversationSummary,
                      lastVisitorInfo>>
       /\ UNCHANGED <<envVars, dbVars, lastBatch, reactVars, dateVars>>

handleSpeechResult == \E transcript \in Utterances, gap \in 0..2 : speechResult(transcript, gap)

(***************************************************************************)
(* toggleListening, the Analyze button, clearConversation, switchSpeaker   *)
(***************************************************************************)
\* onConversationUpdate in App
onConversationUpdate(summary, visitor) ==
    /\ history' = history + 1
    /\ lastConversationSummary' = summary
    /\ lastVisitorInfo' = IF visitor.known THEN visitor ELSE lastVisitorInfo


\* A variant of the start branch that also empties the task list.
startRecordingClearingTasks ==
    /\ conversations' = <<>>
    /\ lastSummary' = <<>>
    /\ visitorInfo' = NoVisitor
    /\ isListening' = TRUE
    /\ tasks' = <<>>
    /\ UNCHANGED <<history, lastConversationSummary, lastVisitorInfo,
                   memoryLog, isProcessing, convCalls, analyses>>

\* toggleListening while not listening: the old session's state is cleared and the
\* recogniser started.
startRecording ==
    /\ conversations' = <<>>
    /\ lastSummary' = <<>>
    /\ visitorInfo' = NoVisitor
    /\ isListening' = TRUE
    /\ UNCHANGED <<history, lastConversationSummary, lastVisitorInfo, tasks,
                   memoryLog, isProcessing, convCalls, analyses>>

toggleListening ==
    LET c == rendered IN
    /\ primaryModel
    /\ toggles < MaxToggles
    /\ toggles' = toggles + 1
    /\ IF c.isListening
       THEN /\ isListening' = FALSE
            /\ UNCHANGED <<conversations, lastSummary, visitorInfo>>
            /\ IF Len(c.conversations) > 0
               THEN onDatesDetected(stopTasks(c.conversations))
               ELSE UNCHANGED <<tasks, memoryLog>>
            /\ IF Len(c.conversations) > 0 /\ c.lastSummary = <<>>
               THEN /\ onConversationUpdate(
                          <<"Conversation recorded:">> \o conversationText(c.conversations),
                          c.visitorInfo)
                    /\ analyzeConversation(c.conversations, c)
               ELSE UNCHANGED <<history, lastConversationSummary, lastVisitorInfo,
                                isProcessing, convCalls, analyses>>
       ELSE startRecording
    /\ UNCHANGED <<isAnalyzingRef, isAnalyzing, status, quotaHit, nudges, lastSummaryRef,
                   sceneCalls, scans>>
    /\ UNCHANGED <<envVars, identifiedPerson, speakerVars, turns, dbVars, lastBatch,
                   reactVars, dateVars>>

\* The Analyze button, shown when the render has turns and disabled while it shows
\* isProcessing.
AnalyzeButton ==
    /\ primaryModel
    /\ Len(rendered.conversations) > 0
    /\ ~rendered.isProcessing
    /\ analyzeConversation(rendered.conversations, rendered)
    /\ UNCHANGED <<isListening, conversations, lastSummary, visitorInfo, speakerVars, turns,
                   toggles>>
    /\ UNCHANGED <<envVars, sceneVars, sharedVars, dbVars, lastBatch, reactVars, dateVars>>

\* A variant of clearConversation that also abandons the analyses in flight.
clearConversationCancelling ==
    /\ primaryModel
    /\ conversations' = <<>>
    /\ lastSummary' = <<>>
    /\ convCalls' = <<>>
    /\ isProcessing' = FALSE
    /\ UNCHANGED <<isListening, visitorInfo, speakerVars, analyses, turns, toggles>>
    /\ UNCHANGED <<envVars, sceneVars, sharedVars, dbVars, lastBatch, reactVars, dateVars>>

clearConversation ==
    /\ primaryModel
    /\ conversations' = <<>>
    /\ lastSummary' = <<>>
    /\ UNCHANGED <<isListening, isProcessing, visitorInfo, speakerVars, convCalls,
                   analyses, turns, toggles>>
    /\ UNCHANGED <<envVars, sceneVars, sharedVars, dbVars, lastBatch, reactVars, dateVars>>

\* The two speaker buttons, shown while the recorder listens.
switchSpeaker ==
    \E speaker \in {"You", "Visitor"} :
        /\ primaryModel /\ rendered.isListening
        /\ SetSpeakerState(updateSpeaker(SpeakerState, speaker, TRUE))
        /\ UNCHANGED <<convState, convCalls, analyses, turns, toggles>>
        /\ UNCHANGED <<envVars, sceneVars, sharedVars, dbVars, lastBatch, reactVars, dateVars>>

\* More than 15 s pass since the last speaker change.
TimePasses ==
    /\ sinceChange = "recent"
    /\ sinceChange' = "long"
    /\ UNCHANGED <<currentSpeaker, isManualSwitchRef, primarySpeakerRef>>
    /\ UNCHANGED <<convState, convCalls, analyses, turns, toggles>>
    /\ UNCHANGED <<envVars, sceneVars, sharedVars, dbVars, lastBatch, reactVars, dateVars>>

(***************************************************************************)
(* analyzeConversation: the tiers answer.  A model that fails is followed  *)
(* by the backup model when there is one, by generateMockResponse          *)
(* otherwise.                                                              *)
(***************************************************************************)
ConvStep(i, c) ==
    /\ convCalls' = [convCalls EXCEPT ![i] = c]
    /\ UNCHANGED <<convState, speakerVars, analyses, turns, toggles>>
    /\ UNCHANGED <<envVars, sceneVars, sharedVars, dbVars, lastBatch, reactVars, dateVars>>

MockOf(c) ==
    generateMockResponse(c.text, visitorNameOf(c.visitorInfo),
                         visitorRelationOf(c.visitorInfo))

ConvPrimarySucceeds ==
    \E i \in 1..Len(convCalls), r \in ModelResponses :
        /\ convCalls[i].pc = "primary"
        /\ ConvStep(i, [convCalls[i] EXCEPT !.pc = "parse", !.response = r,
                                            !.source = "primary"])

AfterConvPrimaryFailure(c) ==
    IF backupModel
    THEN [c EXCEPT !.pc = "backup", !.pFailed = TRUE, !.bInv = c.bInv + 1]
    ELSE [c EXCEPT !.pc = "parse", !.pFailed = TRUE, !.response = MockOf(c),
                   !.source = "mock"]

ConvPrimaryFails ==
    \E i \in 1..Len(convCalls) :
        /\ convCalls[i].pc = "primary"
        /\ ConvStep(i, AfterConvPrimaryFailure(convCalls[i]))

ConvBackupSucceeds ==
    \E i \in 1..Len(convCalls), r \in ModelResponses :
        /\ convCalls[i].pc = "backup"
        /\ ConvStep(i, [convCalls[i] EXCEPT !.pc = "parse", !.response = r,
                                            !.source = "backup"])

\* A variant that substitutes nothing when the backup model fails.
AfterConvBackupFailureUncaught(c) ==
    [c EXCEPT !.pc = "parse", !.bFailed = TRUE]

AfterConvBackupFailure(c) ==
    [c EXCEPT !.pc = "parse", !.bFailed = TRUE, !.response = MockOf(c), !.source = "mock"]

ConvBackupFails ==
    \E i \in 1..Len(convCalls) :
        /\ convCalls[i].pc = "backup"
        /\ ConvStep(i, AfterConvBackupFailure(convCalls[i]))

(***************************************************************************)
(* analyzeConversation after the response: the sections are parsed, the    *)
(* visitor and the summary are set, every date line and every action line  *)
(* is handed to addDate, the transcript is corrected and the flag cleared. *)
(***************************************************************************)
\* The addDate calls of one response: the date lines, then the action lines.
NewDates(response, text, firstId) ==
    LET Labelled(ds, as) ==
            [k \in 1..(Len(ds) + Len(as)) |->
                LET label == IF k <= Len(ds) THEN ds[k] ELSE as[k - Len(ds)]
                IN [id |-> firstId + k - 1,
                    date |-> parseDateFromText(label, now),
                    event |-> label,
                    type |-> IF k <= Len(ds) THEN "appointment" ELSE "reminder"]]
    IN Labelled(dateLines(response, text), actionLines(response))

VisitorIsSet(response) ==
    visitorMatch(response).found
        /\ ~includes(toLowerCase(visitorMatch(response).value), <<"unknown">>)

analyzeConversationResume ==
    \E i \in 1..Len(convCalls) :
        LET call == convCalls[i]
            response == call.response
        IN /\ call.pc = "parse"
           /\ \E visitor \in {extractedVisitor(response, call.visitorInfo)},
                 added \in {NewDates(response, call.text, nextId)} :
                /\ convCalls' = RemoveAt(convCalls, i)
                /\ IF VisitorIsSet(response)
                   THEN /\ visitorInfo' = visitor
                        /\ dirty' = [dirty EXCEPT !.visitorInfo = TRUE]
                   ELSE UNCHANGED <<visitorInfo, dirty>>
                /\ IF summaryMatch(response).found
                   THEN /\ lastSummary' = summaryMatch(response).value
                        /\ onConversationUpdate(summaryMatch(response).value, visitor)
                   ELSE UNCHANGED <<lastSummary, history, lastConversationSummary,
                                    lastVisitorInfo>>
                /\ pendingAdds' = pendingAdds \o added
                /\ nextId' = nextId + Len(added)
                /\ lastBatch' = {added[k].id : k \in 1..Len(added)}
                /\ conversations' = correctTranscript(conversations, response)
                /\ isProcessing' = FALSE
                /\ UNCHANGED <<isListening, speakerVars, analyses, turns, toggles, dates,
                                failures, stores, loads>>
                /\ UNCHANGED <<envVars, sceneVars, identifiedPerson, tasks, rendered, dateVars>>

(***************************************************************************)
(* memoryDatabase.addDate: db.add completes, or fails and the record is    *)
(* dropped.  The calls complete in the order they were made.               *)
(***************************************************************************)
\* A variant in which a failing db.add abandons the calls that are still to complete.
addDateAbortingOnFailure ==
    /\ pendingAdds # <<>>
    /\ \/ /\ \A k \in 1..Len(dates) : dates[k].id # Head(pendingAdds).id
          /\ dates' = Append(dates, Head(pendingAdds))
          /\ pendingAdds' = Tail(pendingAdds)
          /\ UNCHANGED failures
       \/ /\ failures < MaxFailures
          /\ failures' = failures + 1
          /\ pendingAdds' = <<>>
          /\ UNCHANGED dates
    /\ UNCHANGED <<nextId, lastBatch, stores, loads>>
    /\ UNCHANGED <<envVars, sceneVars, convVars, sharedVars, reactVars, dateVars>>

addDate ==
    /\ pendingAdds # <<>>
    /\ pendingAdds' = Tail(pendingAdds)
    /\ \/ /\ \A k \in 1..Len(dates) : dates[k].id # Head(pendingAdds).id
          /\ dates' = Append(dates, Head(pendingAdds))
          /\ UNCHANGED failures
       \/ /\ failures < MaxFailures
          /\ failures' = failures + 1
          /\ UNCHANGED dates
    /\ UNCHANGED <<nextId, lastBatch, stores, loads>>
    /\ UNCHANGED <<envVars, sceneVars, convVars, sharedVars, reactVars, dateVars>>

(***************************************************************************)
(* React: a render commits, the closures see the current state and the     *)
(* effects whose dependencies changed run.                                 *)
(***************************************************************************)
\* The effect on [identifiedPerson, isListening, currentSpeaker].
SpeakerEffectRuns ==
    /\ \/ dirty.identifiedPerson
       \/ rendered.isListening # isListening
       \/ rendered.currentSpeaker # currentSpeaker
       \/ rendered.identifiedPerson # identifiedPerson
    /\ identifiedPerson # NoPerson
    /\ isListening

SpeakerEffect(sp) ==
    LET currentName == identifiedPerson.name IN
    IF sp.primarySpeakerRef = ""
    THEN [updateSpeaker(sp, "You", FALSE) EXCEPT !.primarySpeakerRef = currentName]
    ELSE IF currentName # sp.primarySpeakerRef /\ sp.currentSpeaker = "You"
    THEN [updateSpeaker(sp, "Visitor", FALSE) EXCEPT !.isManualSwitchRef = FALSE]
    ELSE IF /\ currentName = sp.primarySpeakerRef
            /\ sp.currentSpeaker = "Visitor"
            /\ ~sp.isManualSwitchRef
            /\ sp.sinceChange = "long"
    THEN updateSpeaker(sp, "You", FALSE)
    ELSE sp

\* The branch of the effect that also sets the visitor.
SpeakerEffectSetsVisitor ==
    /\ SpeakerEffectRuns
    /\ primarySpeakerRef # ""
    /\ identifiedPerson.name # primarySpeakerRef
    /\ currentSpeaker = "You"

\* The effect on [visitorInfo].
RelabelEffectRuns ==
    /\ dirty.visitorInfo \/ rendered.visitorInfo # visitorInfo
    /\ visitorInfo.known
    /\ visitorInfo.name # <<>>
    /\ visitorInfo.name # <<"the", "visitor">>

Relabel(convos) ==
    [k \in 1..Len(convos) |->
        IF convos[k].speaker = <<"Visitor">>
        THEN [convos[k] EXCEPT !.speaker = visitorInfo.name]
        ELSE convos[k]]

Render ==
    /\ rendered # Snapshot \/ dirty # NoDirty
    /\ rendered' = Snapshot
    /\ SetSpeakerState(IF SpeakerEffectRuns THEN SpeakerEffect(SpeakerState)
                       ELSE SpeakerState)
    /\ IF SpeakerEffectSetsVisitor
       THEN /\ visitorInfo' = Visitor(<<identifiedPerson.name>>,
                                      <<identifiedPerson.relation>>)
            /\ dirty' = [NoDirty EXCEPT !.visitorInfo = TRUE]
       ELSE /\ UNCHANGED visitorInfo
            /\ dirty' = NoDirty
    /\ conversations' = IF RelabelEffectRuns THEN Relabel(conversations)
                        ELSE conversations
    /\ UNCHANGED <<isListening, isProcessing, lastSummary, convCalls, analyses, turns,
                   toggles>>
    /\ UNCHANGED <<envVars, sceneVars, sharedVars, dbVars, lastBatch, dateVars>>

(***************************************************************************)
(* MemoryDashboard: loadAllData and seedMockData, one step per await.  A   *)
(* run is started by the effect when the dashboard opens and by its        *)
(* 5-second interval; runs overlap freely.                                 *)
(***************************************************************************)
LoadStep(i, run) ==
    /\ loads' = [loads EXCEPT ![i] = run]
    /\ UNCHANGED <<dates, pendingAdds, nextId, failures>>
    /\ UNCHANGED <<envVars, sceneVars, convVars, sharedVars, lastBatch, reactVars, dateVars>>

\* The effect on [isOpen] or the interval calls loadAllData.
loadAllData ==
    /\ Len(loads) < MaxLoads
    /\ loads' = Append(loads, [pc |-> "read", k |-> 0])
    /\ UNCHANGED <<dates, pendingAdds, nextId, failures, stores>>
    /\ UNCHANGED <<envVars, sceneVars, convVars, sharedVars, lastBatch, reactVars, dateVars>>

\* The three getAll calls have answered: the run seeds or shows what it read.
loadAllDataRead ==
    \E i \in 1..Len(loads) :
        /\ loads[i].pc = "read"
        /\ LoadStep(i, [loads[i] EXCEPT !.pc =
               IF \/ Len(stores.conversations) = 0 /\ stores.people = {}
                  \/ needsImages(stores.people)
               THEN "cleanse" ELSE "done"])
        /\ UNCHANGED stores

\* seedMockData, step 1: people with a mock name under another id are deleted.
seedCleanse ==
    \E i \in 1..Len(loads) :
        /\ loads[i].pc = "cleanse"
        /\ stores' = [stores EXCEPT !.people =
               {q \in stores.people : ~(q.name \in mockNames /\ q.id \notin mockIds)}]
        /\ LoadStep(i, [loads[i] EXCEPT !.pc = "people", !.k = 1])

\* seedMockData, step 2: await updatePerson(person) for the next mock person.
seedPerson ==
    \E i \in 1..Len(loads) :
        /\ loads[i].pc = "people"
        /\ stores' = [stores EXCEPT !.people = PutPerson(stores.people, mockPeople[loads[i].k])]
        /\ LoadStep(i, IF loads[i].k < Len(mockPeople)
                       THEN [loads[i] EXCEPT !.k = loads[i].k + 1]
                       ELSE [loads[i] EXCEPT !.pc = "check", !.k = 0])

\* seedMockData, step 3: getAllConversations has answered.
seedCheckConversations ==
    \E i \in 1..Len(loads) :
        /\ loads[i].pc = "check"
        /\ LoadStep(i, IF Len(stores.conversations) = 0
                       THEN [loads[i] EXCEPT !.pc = "convos", !.k = 1]
                       ELSE [loads[i] EXCEPT !.pc = "reload"])
        /\ UNCHANGED stores

\* await addConversation(convo) for the next mock conversation, under a new id.
seedConversation ==
    \E i \in 1..Len(loads) :
        /\ loads[i].pc = "convos"
        /\ stores' = [stores EXCEPT !.conversations =
               Append(stores.conversations,
                      [id |-> Len(stores.conversations) + 1,
                       participants |-> mockConvos[loads[i].k]])]
        /\ LoadStep(i, IF loads[i].k < Len(mockConvos)
                       THEN [loads[i] EXCEPT !.k = loads[i].k + 1]
                       ELSE [loads[i] EXCEPT !.pc = "reload", !.k = 0])

\* The stores are read again after seeding and shown.
loadAllDataReload ==
    \E i \in 1..Len(loads) :
        /\ loads[i].pc = "reload"
        /\ LoadStep(i, [loads[i] EXCEPT !.pc = "done"])
        /\ UNCHANGED stores

NextSeed ==
    \/ loadAllData
    \/ loadAllDataRead
    \/ seedCleanse
    \/ seedPerson
    \/ seedCheckConversations
    \/ seedConversation
    \/ loadAllDataReload

(***************************************************************************)
(* The specifications.                                                     *)
(***************************************************************************)
Next ==
    \/ InitModels
    \/ OnUserMedia
    \/ ToggleAutoScan
    \/ AutoScanTimer
    \/ handleManualAnalysis
    \/ ScenePrimarySucceeds
    \/ ScenePrimaryFails
    \/ SceneBackupSucceeds
    \/ SceneBackupFails
    \/ runAnalysisResume
    \/ handleSpeechResult
    \/ toggleListening
    \/ AnalyzeButton
    \/ clearConversation
    \/ removeTask
    \/ switchSpeaker
    \/ TimePasses
    \/ ConvPrimarySucceeds
    \/ ConvPrimaryFails
    \/ ConvBackupSucceeds
    \/ ConvBackupFails
    \/ analyzeConversationResume
    \/ addDate
    \/ NextSeed
    \/ Render

Spec == Init /\ [][Next]_vars

\* The scene pipeline alone: App with the recorder left idle.
NextScene ==
    \/ InitModels
    \/ OnUserMedia
    \/ ToggleAutoScan
    \/ AutoScanTimer
    \/ handleManualAnalysis
    \/ ScenePrimarySucceeds
    \/ ScenePrimaryFails
    \/ SceneBackupSucceeds
    \/ SceneBackupFails
    \/ runAnalysisResume
    \/ Render

SpecScene == Init /\ [][NextScene]_vars

\* The conversation pipeline alone: the recorder with the camera left off.
NextConv ==
    \/ InitModels
    \/ handleSpeechResult
    \/ toggleListening
    \/ AnalyzeButton
    \/ clearConversation
    \/ ConvPrimarySucceeds
    \/ ConvPrimaryFails
    \/ ConvBackupSucceeds
    \/ ConvBackupFails
    \/ analyzeConversationResume
    \/ addDate
    \/ Render

SpecConv == Init /\ [][NextConv]_vars

(***************************************************************************)
(* parseDateFromText as a function of the mention text and the reference   *)
(* time.                                                                   *)
(***************************************************************************)
FirstRefDay == 24
RefSpan == 40

RefDays == FirstRefDay..(FirstRefDay + RefSpan) \cup 358..364

RefDates == {[day |-> d, tod |-> t] : d \in RefDays, t \in {0, 1}}

MentionTexts ==
    { <<"today">>, <<"tomorrow">>, <<"day", "after", "tomorrow">>,
      <<"the", "Day", "after", "Tomorrow">>, <<"next", "week">>, <<"next", "month">>,
      <<"on", "sunday">>, <<"next", "Monday">>, <<"tuesday">>, <<"this", "wednesday">>,
      <<"thursday">>, <<"doctor", "on", "Friday">>, <<"saturday">>,
      <<"lunch", "monday", "or", "friday">>, <<"tomorrow", "or", "friday">>,
      <<"Feb", "10">>, <<"feb", "16th">>, <<"16", "feb">>, <<"dec", "31">>,
      <<"jan", "1st">>, <<"feb", "29">>, <<"feb", "32">>, <<"see", "you", "soon">>,
      <<"2026-03-01">> }

InitDate ==
    /\ AppInit
    /\ now \in RefDates
    /\ \E t \in MentionTexts : parsed = [text |-> t, done |-> FALSE, result |-> now]

ParseMention ==
    /\ ~parsed.done
    /\ parsed' = [parsed EXCEPT !.done = TRUE, !.result = parseDateFromText(parsed.text, now)]
    /\ UNCHANGED <<appVars, now>>

NextDate == ParseMention

SpecDate == InitDate /\ [][NextDate]_vars

(***************************************************************************)
(* analyzeConversation from the moment the response is in hand: the        *)
(* recorder is listening, one analysis was started on what was said and it *)
(* has its response, from a model or from generateMockResponse.            *)
(***************************************************************************)
BatchUtterances ==
    { <<"see", "you", "on", "Feb", "16">>,
      <<"remind", "me", "to", "call", "tomorrow">>,
      <<"lunch", "on", "Friday">>,
      <<"tomorrow", "or", "Mar", "5", "or", "Feb", "16">> }

BatchResponses ==
    {WellFormedResponse, RepeatingResponse, CorrectingResponse,
     QualifiedVisitorResponse, BulletedDatesResponse, UnlabelledResponse}

YouSaid(u) == [speaker |-> <<"You">>, text |-> u, timestamp |-> 1]

BatchConversations ==
    {<<YouSaid(u)>> : u \in BatchUtterances}
        \cup {<<YouSaid(u), [YouSaid(v) EXCEPT !.timestamp = 2]>> : u, v \in BatchUtterances}

\* The render that follows setIsProcessing(true).
BatchRender(convos) ==
    [isAnalyzing |-> FALSE, isProcessing |-> TRUE, isListening |-> TRUE,
     conversations |-> convos, lastSummary |-> <<>>, visitorInfo |-> NoVisitor,
     currentSpeaker |-> "You", identifiedPerson |-> NoPerson]

\* The ways the tiers of one call end.
BatchOutcomes(convos, backup) ==
    LET started == NewConvCall(convos, [BatchRender(convos) EXCEPT !.isProcessing = FALSE])
        failed == AfterConvPrimaryFailure(started)
    IN {[started EXCEPT !.pc = "parse", !.response = r, !.source = "primary"] :
            r \in BatchResponses}
       \cup (IF backup THEN {AfterConvBackupFailure(failed)} ELSE {failed})

BatchState ==
    /\ primaryModel = TRUE
    /\ backupModel \in BOOLEAN
    /\ cameraReady = FALSE
    /\ isAutoScanEnabled = FALSE
    /\ isAnalyzingRef = FALSE
    /\ isAnalyzing = FALSE
    /\ status = "Watching"
    /\ quotaHit = FALSE
    /\ identifiedPerson = NoPerson
    /\ nudges = <<>>
    /\ history = 0
    /\ lastSummaryRef = <<>>
    /\ lastConversationSummary = <<>>
    /\ lastVisitorInfo = NoVisitor
    /\ sceneCalls = <<>>
    /\ scans = 0
    /\ isListening = TRUE
    /\ conversations \in BatchConversations
    /\ \E heard \in {HeardSoFar(conversations)} :
           tasks = heard.tasks /\ memoryLog = heard.memoryLog
    /\ isProcessing = TRUE
    /\ lastSummary = <<>>
    /\ visitorInfo = NoVisitor
    /\ currentSpeaker = "You"
    /\ isManualSwitchRef = FALSE
    /\ primarySpeakerRef = ""
    /\ sinceChange = "recent"
    /\ \E call \in BatchOutcomes(conversations, backupModel) : convCalls = <<call>>
    /\ analyses = 1
    /\ turns = Len(conversations)
    /\ dates = <<>>
    /\ pendingAdds = <<>>
    /\ nextId = 1
    /\ failures = 0
    /\ stores = EmptyStores
    /\ loads = <<>>
    /\ lastBatch = {}
    /\ rendered = BatchRender(conversations)
    /\ dirty = NoDirty
    /\ now = RefNow
    /\ parsed = NoParse

InitBatch == BatchState /\ toggles = 1

NextBatch ==
    \/ analyzeConversationResume
    \/ addDate
    \/ Render

SpecBatch == InitBatch /\ [][NextBatch]_vars

(***************************************************************************)
(* The same moment with the user at the controls: while the response waits *)
(* to be applied the recording is stopped, started again or cleared, and   *)
(* more is said.  toggles counts the toggles from here on.                 *)
(***************************************************************************)
InitSession ==
    /\ BatchState
    /\ toggles = 0
    /\ ~backupModel
    /\ conversations = <<YouSaid(<<"see", "you", "on", "Feb", "16">>)>>
    /\ convCalls[1].response = CorrectingResponse

NextSession ==
    \/ toggleListening
    \/ clearConversation
    \/ handleSpeechResult
    \/ analyzeConversationResume
    \/ Render

SpecSession == InitSession /\ [][NextSession]_vars

(***************************************************************************)
(* Both pipelines from the moment their primary model is invoked: the      *)
(* camera is ready, the recorder is listening, Scan Now was pressed and    *)
(* the first speech result has arrived.                                    *)
(***************************************************************************)
\* The render that followed the start of the recording.
ListeningRender ==
    [isAnalyzing |-> FALSE, isProcessing |-> FALSE, isListening |-> TRUE,
     conversations |-> <<>>, lastSummary |-> <<>>, visitorInfo |-> NoVisitor,
     currentSpeaker |-> "You", identifiedPerson |-> NoPerson]

TiersState ==
    /\ primaryModel = TRUE
    /\ backupModel \in BOOLEAN
    /\ cameraReady = TRUE
    /\ isAutoScanEnabled = FALSE
    /\ isAnalyzingRef = TRUE
    /\ isAnalyzing = TRUE
    /\ status = "Analyzing..."
    /\ quotaHit = FALSE
    /\ identifiedPerson = NoPerson
    /\ nudges = <<>>
    /\ history = 0
    /\ lastSummaryRef = <<>>
    /\ lastConversationSummary = <<>>
    /\ lastVisitorInfo = NoVisitor
    /\ sceneCalls = <<NewSceneCall>>
    /\ scans = 1
    /\ isListening = TRUE
    /\ \E u \in BatchUtterances : conversations = <<YouSaid(u)>>
    /\ \E heard \in {HeardSoFar(conversations)} :
           tasks = heard.tasks /\ memoryLog = heard.memoryLog
    /\ isProcessing = TRUE
    /\ lastSummary = <<>>
    /\ visitorInfo = NoVisitor
    /\ currentSpeaker = "You"
    /\ isManualSwitchRef = FALSE
    /\ primarySpeakerRef = ""
    /\ sinceChange = "recent"
    /\ convCalls = <<NewConvCall(conversations, ListeningRender)>>
    /\ analyses = 1
    /\ turns = 1
    /\ dates = <<>>
    /\ pendingAdds = <<>>
    /\ nextId = 1
    /\ failures = 0
    /\ stores = EmptyStores
    /\ loads = <<>>
    /\ lastBatch = {}
    /\ rendered = ListeningRender
    /\ dirty = NoDirty
    /\ now = RefNow
    /\ parsed = NoParse

InitTiers == TiersState /\ toggles = 1

NextTiers ==
    \/ ScenePrimarySucceeds
    \/ ScenePrimaryFails
    \/ SceneBackupSucceeds
    \/ SceneBackupFails
    \/ runAnalysisResume
    \/ ConvPrimarySucceeds
    \/ ConvPrimaryFails
    \/ ConvBackupSucceeds
    \/ ConvBackupFails
    \/ analyzeConversationResume
    \/ addDate
    \/ Render

SpecTiers == InitTiers /\ [][NextTiers]_vars

(***************************************************************************)
(* The claims.                                                             *)
(***************************************************************************)
SceneCallIds == 1..Len(sceneCalls)
ConvCallIds == 1..Len(convCalls)

\* analyzeScene has returned / analyzeConversation holds its response.
SceneReturned(i) == sceneCalls[i].pc = "returned"
ConvAnswered(i) == convCalls[i].pc = "parse"

\* C1: in an analysis call (analyzeScene, or the tiers of analyzeConversation) in
\* which the primary model succeeds, the backup model is never invoked.
PrimarySuccessNeverInvokesBackup ==
    /\ \A i \in SceneCallIds :
          (SceneReturned(i) /\ sceneCalls[i].pErr = NoError) => sceneCalls[i].bInv = 0
    /\ \A i \in ConvCallIds :
          (ConvAnswered(i) /\ ~convCalls[i].pFailed) =>
              /\ convCalls[i].source = "primary"
              /\ convCalls[i].bInv = 0

PrimarySucceededInBothPipelines ==
    /\ \E i \in SceneCallIds :
          /\ SceneReturned(i)
          /\ sceneCalls[i].pErr = NoError
          /\ sceneCalls[i].result.kind = "json"
    /\ \E i \in ConvCallIds : ConvAnswered(i) /\ convCalls[i].source = "primary"
    /\ backupModel

\* C2: in one analysis call every model is invoked at most once, and when the
\* primary model fails with an error that is not a quota error and a backup model
\* is configured, the backup model is invoked exactly once.
EachSourceInvokedAtMostOnce ==
    /\ \A i \in SceneCallIds :
          /\ sceneCalls[i].pInv <= 1
          /\ sceneCalls[i].bInv <= 1
          /\ ( /\ SceneReturned(i)
               /\ sceneCalls[i].pErr # NoError
               /\ ~IsQuotaMessage(sceneCalls[i].pErr)
               /\ backupModel ) => sceneCalls[i].bInv = 1
    /\ \A i \in ConvCallIds :
          /\ convCalls[i].pInv <= 1
          /\ convCalls[i].bInv <= 1
          /\ (ConvAnswered(i) /\ convCalls[i].pFailed /\ backupModel) =>
                 convCalls[i].bInv = 1

BackupInvokedOnceAfterPlainFailure ==
    /\ backupModel
    /\ \E i \in SceneCallIds :
          /\ SceneReturned(i)
          /\ sceneCalls[i].pErr = "Network error"
          /\ sceneCalls[i].bInv = 1
    /\ \E i \in ConvCallIds :
          ConvAnswered(i) /\ convCalls[i].pFailed /\ convCalls[i].bInv = 1

\* Some attempted tier of the call failed with a message matching '429' or 'quota'.
SomeTierHitQuota(c) == IsQuotaMessage(c.pErr) \/ IsQuotaMessage(c.bErr)

\* C3 (as stated): the result of analyzeScene has the quota flag set if and only if
\* the failure message of at least one attempted tier matched '429' or 'quota',
\* also when the primary fails on quota and the backup then succeeds.
QuotaFlagIffSomeTierHitQuota ==
    \A i \in SceneCallIds :
        SceneReturned(i) =>
            (sceneCalls[i].result.isQuotaExceeded <=> SomeTierHitQuota(sceneCalls[i]))

\* C3 (amended): the result of analyzeScene has the quota flag set if and only if
\* no tier succeeded and the failure message of at least one attempted tier matched
\* '429' or 'quota'; a result of the backup model carries no quota flag.
QuotaFlagIffFailedOnQuota ==
    \A i \in SceneCallIds :
        SceneReturned(i) =>
            (sceneCalls[i].result.isQuotaExceeded <=>
                (sceneCalls[i].result.kind = "failure" /\ SomeTierHitQuota(sceneCalls[i])))

BackupSucceededAfterQuota ==
    \E i \in SceneCallIds :
        /\ SceneReturned(i)
        /\ IsQuotaMessage(sceneCalls[i].pErr)
        /\ sceneCalls[i].result.usedBackup
        /\ ~sceneCalls[i].result.isQuotaExceeded

\* The response has the four labelled sections.
Labelled(response) ==
    \A label \in {"VISITOR:", "SUMMARY:", "DATES:", "ACTIONS:"} :
        \E k \in 1..Len(response) : response[k] = label

\* C4: in conversation analysis, when the primary model fails and the backup model
\* fails too or is not configured, the response of generateMockResponse is
\* substituted: the call goes on to the parsing step with a response that has the
\* VISITOR, SUMMARY, DATES and ACTIONS sections.
HeuristicResponseSubstituted ==
    \A i \in ConvCallIds :
        LET c == convCalls[i] IN
        /\ (c.pFailed /\ ~backupModel) => ConvAnswered(i)
        /\ c.bFailed => ConvAnswered(i)
        /\ (c.pFailed /\ (c.bFailed \/ ~backupModel)) =>
               /\ c.source = "mock"
               /\ c.response = MockOf(c)
               /\ Labelled(c.response)

HeuristicAfterBothFailed ==
    \E i \in ConvCallIds :
        /\ ConvAnswered(i)
        /\ convCalls[i].pFailed /\ convCalls[i].bFailed
        /\ convCalls[i].source = "mock"

OneSceneAnalysisInFlight ==
    /\ Len(sceneCalls) <= 1
    /\ isAnalyzingRef <=> Len(sceneCalls) = 1

\* Scan Now can still be pressed on a render that does not show the running analysis.
ScanRequestedWhileInFlight ==
    /\ Len(sceneCalls) = 1
    /\ ~rendered.isAnalyzing
    /\ scans < MaxScans
    /\ ENABLED handleManualAnalysis

\* C7: at most one conversation analysis is in flight, for every interleaving of
\* the speech results, the stop of the recording and the Analyze button.
OneConversationAnalysisInFlight == Len(convCalls) <= 1

\* The dates stored by the last response parsed.
BatchEvents == {k \in 1..Len(dates) : dates[k].id \in lastBatch}

\* Every addDate call of the last response parsed has completed and stored its date.
BatchPersisted ==
    /\ convCalls = <<>>
    /\ pendingAdds = <<>>
    /\ \A id \in lastBatch : \E k \in 1..Len(dates) : dates[k].id = id

\* C8: within the batch of one response, two mentions with the same normalized
\* label give exactly one persisted event.
OneEventPerLabel ==
    BatchPersisted =>
        \A k, l \in BatchEvents :
            toLowerCase(dates[k].event) = toLowerCase(dates[l].event) => k = l

\* C9: parseDateFromText resolves a text containing "day after tomorrow" to the
\* reference time plus two days.
DayAfterTomorrowIsTwoDaysLater ==
    (parsed.done /\ includes(toLowerCase(parsed.text), <<"day", "after", "tomorrow">>)) =>
        parsed.result = AddDays(now, 2)

\* The weekdays the text names, and the keywords that are looked for before them.
NamedWeekdays(text) == {i \in 0..6 : includes(toLowerCase(text), <<dayNames[i + 1]>>)}

EarlierKeyword(text) ==
    \/ includes(toLowerCase(text), <<"today">>)
    \/ includes(toLowerCase(text), <<"tomorrow">>)
    \/ includes(toLowerCase(text), <<"next", "week">>)
    \/ includes(toLowerCase(text), <<"next", "month">>)

\* C10: for a text that names a weekday and none of the keywords looked for
\* earlier, parseDateFromText gives a date 1 to 7 days after the reference date
\* that falls on the named weekday; when the reference date falls on the named
\* weekday the result is 7 days later.
NamedWeekdayWithinAWeek ==
    (parsed.done /\ NamedWeekdays(parsed.text) # {} /\ ~EarlierKeyword(parsed.text)) =>
        /\ parsed.result.day - now.day \in 1..7
        /\ parsed.result.tod = now.tod
        /\ getDay(parsed.result.day) \in NamedWeekdays(parsed.text)
        /\ NamedWeekdays(parsed.text) = {getDay(now.day)} =>
               parsed.result.day = now.day + 7

WeekdayOfReferenceDayNamed ==
    /\ parsed.done
    /\ ~EarlierKeyword(parsed.text)
    /\ NamedWeekdays(parsed.text) = {getDay(now.day)}
    /\ parsed.result.day = now.day + 7

\* The month-and-day pairs the text mentions, in either order, with a day in 1..31.
MonthDayMentions(text) ==
    {[month |-> MonthNames[Lower(text[i])], day |-> DayTokens[text[i + 1]]] :
        i \in {k \in 1..(Len(text) - 1) :
                  /\ IsMonthName(text[k]) /\ IsDayToken(text[k + 1])
                  /\ DayTokens[text[k + 1]] \in 1..31}}
    \cup
    {[month |-> MonthNames[Lower(text[i + 1])], day |-> DayTokens[text[i]]] :
        i \in {k \in 1..(Len(text) - 1) :
                  /\ IsDayToken(text[k]) /\ IsMonthName(text[k + 1])
                  /\ DayTokens[text[k]] \in 1..31}}

\* The date of the reference year lies strictly before the reference time.
PassedThisYear(m) ==
    LET n == DayNumber(getFullYear(now.day), m.month, m.day)
    IN n < now.day \/ (n = now.day /\ now.tod > 0)

NoPattern(text) ==
    /\ ~EarlierKeyword(text)
    /\ NamedWeekdays(text) = {}
    /\ MonthDayMentions(text) = {}
    /\ standardDate(text) = InvalidDate

\* The addDate calls made so far: the records stored and the records on their way.
Mentioned == dates \o pendingAdds

ValidDate(d) == d.tod \in {0, 1} /\ d.day >= 0

\* C12: parseDateFromText is total: every mention gets a valid date, the reference
\* time when its text matches no pattern, and is handed to addDate with that date,
\* so every persisted event has a valid date.
EveryMentionHasAValidDate ==
    \A k \in 1..Len(Mentioned) :
        /\ ValidDate(Mentioned[k].date)
        /\ NoPattern(Mentioned[k].event) => Mentioned[k].date = now

UnparsedMentionPersistedToday ==
    /\ BatchPersisted
    /\ \E k \in BatchEvents : NoPattern(dates[k].event) /\ dates[k].date = now

\* The tokens of a text.
TokensOf(text) == {text[k] : k \in 1..Len(text)}

\* The ACTIONS section read up to the next label.
ActionsUpToTranscript(response) == SectionMatch(response, "ACTIONS:", {"TRANSCRIPT:"})

\* C13: each labelled section ends at the next label: with a TRANSCRIPT section
\* behind ACTIONS, the action mentions are those of the ACTIONS value only, and no
\* text of the TRANSCRIPT section becomes a reminder.
ActionsEndAtTranscript ==
    /\ \A i \in ConvCallIds :
          ConvAnswered(i) =>
              actionLines(convCalls[i].response)
                  = LinesOf(ActionsUpToTranscript(convCalls[i].response))
    /\ \A k \in 1..Len(Mentioned) :
          Mentioned[k].type = "reminder" =>
              TokensOf(Mentioned[k].event) \cap {"TRANSCRIPT:", "\""} = {}

\* The lines of the TRANSCRIPT section of a response, none without the section.
TranscriptLinesOf(response) ==
    IF transcriptMatch(response).found
    THEN split(transcriptMatch(response).value, {"\n"})
    ELSE <<>>

\* next is prev with the transcript of the response applied position by position.
PositionallyCorrected(prev, next, response) ==
    LET lines == TranscriptLinesOf(response) IN
    /\ Len(next) = Len(prev)
    /\ \A idx \in 1..Len(prev) :
          IF idx <= Len(lines) /\ TranscriptLine(lines[idx].toks).found
          THEN /\ next[idx].speaker = TranscriptLine(lines[idx].toks).speaker
               /\ next[idx].text = TranscriptLine(lines[idx].toks).text
          ELSE next[idx] = prev[idx]

\* C14: the TRANSCRIPT correction never changes the number of turns: a line of the
\* form Speaker: "text" overwrites the speaker and the text of the turn at its
\* position, a line beyond the last turn is ignored, any other line changes nothing.
TranscriptCorrectionIsPositional ==
    [][\A i \in ConvCallIds :
          (ConvAnswered(i) /\ convCalls' = RemoveAt(convCalls, i)) =>
              PositionallyCorrected(conversations, conversations', convCalls[i].response)]_vars

\* Two turns, a transcript of three lines: the first turn is overwritten, the second
\* line matches nothing and the third has no turn.
FirstTurnCorrectedSecondKept ==
    /\ convCalls = <<>>
    /\ Len(conversations) = 2
    /\ conversations[1].speaker = <<"Jane">>
    /\ conversations[1].text = <<"see", "you", "soon">>
    /\ conversations[2].speaker = <<"You">>
    /\ conversations[2].text \in BatchUtterances

(***************************************************************************)
(* C15  what may change in a recorded turn                                 *)
(***************************************************************************)
\* The turns that a step keeps: the list is only ever extended at its end or
\* emptied, so the turn at a position stays the turn at that position.
KeptTurns ==
    IF Len(conversations') >= Len(conversations)
    THEN 1..Len(conversations)
    ELSE {}

\* The step applies the answer of an analysis whose TRANSCRIPT line idx has the
\* form Speaker: "text".
CorrectedByTranscript(idx) ==
    \E i \in ConvCallIds :
        /\ ConvAnswered(i)
        /\ convCalls' = RemoveAt(convCalls, i)
        /\ idx <= Len(TranscriptLinesOf(convCalls[i].response))
        /\ TranscriptLine(TranscriptLinesOf(convCalls[i].response)[idx].toks).found

VisitorAsStated(response) ==
    LET m == visitorMatch(response)
        commas == {k \in 1..Len(m.value) : m.value[k] = ","}
        k == Min(commas)
    IN IF ~m.found \/ includes(toLowerCase(m.value), <<"unknown">>)
       THEN NoVisitor
       ELSE IF commas = {}
            THEN Visitor(trim(m.value), <<"visitor">>)
            ELSE Visitor(trim(SubSeq(m.value, 1, k - 1)),
                         trim(SubSeq(m.value, k + 1, Len(m.value))))

\* C16 as stated: the visitor handed on with the summary of an answer is none when
\* the VISITOR value contains "unknown", and otherwise has the first comma-delimited
\* token as name and the whole remainder after the first comma as relation,
\* "visitor" when there is no comma.
VisitorRelationIsWholeRemainder ==
    [][\A i \in ConvCallIds :
          (/\ ConvAnswered(i)
           /\ convCalls' = RemoveAt(convCalls, i)
           /\ summaryMatch(convCalls[i].response).found)
              => lastVisitorInfo' = VisitorAsStated(convCalls[i].response)]_vars

(***************************************************************************)
(* C17  the hybrid merge of the DATES section                              *)
(***************************************************************************)
\* The date mentions the model provides: the lines of its DATES value, none when the
\* section is missing, empty or says "none".
ModelProvidedDates(response) ==
    LinesOf(SectionMatch(response, "DATES:", {"ACTIONS:"}))

\* The merge as stated: the model's dates, then the distinct dates the regular
\* expression finds that are not among them.
DatesAsStated(response, text) ==
    LET provided == ModelProvidedDates(response)
        found == Unique(dateRegexMatches(text))
        AlreadyPresent(d) == \E k \in 1..Len(provided) : provided[k] = d
        Missing(d) == ~AlreadyPresent(d)
    IN provided \o SelectSeq(found, Missing)

\* The labels of the appointments a step hands to addDate, in order.
AppointmentsQueued ==
    LET queued == SubSeq(pendingAdds', Len(pendingAdds) + 1, Len(pendingAdds'))
        IsAppointment(e) == e.type = "appointment"
        appointments == SelectSeq(queued, IsAppointment)
    IN [k \in 1..Len(appointments) |-> appointments[k].event]

\* C17 as stated: the date mentions processed for an answer are every
\* model-provided date followed by every regex-found date not already present; they
\* are the distinct regex-found dates when the model says "none" or omits DATES,
\* and the model's dates when the regex finds nothing.
MergedDatesAreModelThenNewRegexDates ==
    [][\A i \in ConvCallIds :
          (ConvAnswered(i) /\ convCalls' = RemoveAt(convCalls, i))
              => AppointmentsQueued
                     = DatesAsStated(convCalls[i].response, convCalls[i].text)]_vars

(***************************************************************************)
(* C18  the DATES section of the heuristic response                        *)
(***************************************************************************)
\* list holds every element of all once, ordered by first occurrence in all.
DistinctInFirstSeenOrder(list, all) ==
    LET First(d) == Min({k \in 1..Len(all) : all[k] = d})
    IN /\ {list[k] : k \in 1..Len(list)} = {all[k] : k \in 1..Len(all)}
       /\ \A a, b \in 1..Len(list) : a < b => First(list[a]) < First(list[b])

\* The calls answered by the heuristic response.
HeuristicCallIds == {i \in ConvCallIds : ConvAnswered(i) /\ convCalls[i].source = "mock"}

\* The DATES value of the response of call i.
HeuristicDates(i) == SectionMatch(convCalls[i].response, "DATES:", {"ACTIONS:"}).value

\* C18: the heuristic response reports a relative date (today, tomorrow, next week,
\* next month) only when the text has no explicit month and day mention; when it
\* has, the DATES section lists exactly the distinct explicit mentions, each once,
\* in first-seen order.
HeuristicDatesPreferExplicitMentions ==
    \A i \in HeuristicCallIds :
        LET explicit == dateRegexMatches(convCalls[i].text)
        IN IF explicit # <<>>
           THEN DistinctInFirstSeenOrder(existingDateArray(HeuristicDates(i)), explicit)
           ELSE HeuristicDates(i) \in {relMatch(convCalls[i].text), None}

\* A text that says Feb 16, then tomorrow, Mar 5 and Feb 16 again: the heuristic
\* response lists Feb 16 and Mar 5.
ExplicitMentionsListedOnce ==
    \E i \in HeuristicCallIds :
        /\ includes(convCalls[i].text, <<"tomorrow">>)
        /\ Len(dateRegexMatches(convCalls[i].text)) = 3
        /\ existingDateArray(HeuristicDates(i)) = << <<"Feb", "16">>, <<"Mar", "5">> >>

(***************************************************************************)
(* C19  the ACTIONS section of the heuristic response                      *)
(***************************************************************************)
\* clause is a part of text that starts right behind a trigger phrase.
FollowsTrigger(clause, text) ==
    \E phrase \in TriggerPhrases :
        \E k \in 1..Len(text) :
            /\ k + Len(phrase) + Len(clause) - 1 <= Len(text)
            /\ SubSeq(toLowerCase(text), k, k + Len(phrase) - 1) = phrase
            /\ SubSeq(text, k + Len(phrase), k + Len(phrase) + Len(clause) - 1) = clause

\* C19 as stated: in the heuristic tier an action mention is only the clause that
\* follows a trigger phrase (remember to, don't forget to, remind me to); text that
\* does not follow a trigger phrase is never an action mention.
HeuristicActionsFollowATrigger ==
    \A i \in HeuristicCallIds :
        LET actions == actionLines(convCalls[i].response)
        IN \A k \in 1..Len(actions) : FollowsTrigger(actions[k], convCalls[i].text)

(***************************************************************************)
(* C20  a failing addDate                                                  *)
(***************************************************************************)
\* The response has been parsed and every addDate call it made has completed or
\* failed.
BatchSettled == convCalls = <<>> /\ pendingAdds = <<>>

\* C20: when persisting one event fails, only that record is dropped: every other
\* date and action mention of the batch is persisted, and the analysis cycle
\* completes and clears its in-flight flag.
FailedAddDropsOnlyItsRecord ==
    /\ convCalls = <<>> => ~isProcessing
    /\ BatchSettled => Cardinality(BatchEvents) = Cardinality(lastBatch) - failures

\* A batch of at least three mentions in which one addDate failed: a date and a
\* reminder queued behind the failed call are stored.
ReminderStoredAfterFailedAdd ==
    /\ BatchSettled
    /\ ~isProcessing
    /\ failures = 1
    /\ Cardinality(lastBatch) >= 3
    /\ \E lost \in lastBatch :
           /\ \A k \in 1..Len(dates) : dates[k].id # lost
           /\ \E k \in BatchEvents : dates[k].id > lost /\ dates[k].type = "reminder"

(***************************************************************************)
(* C21  a quota-exceeded scene result                                      *)
(***************************************************************************)
\* The step is the continuation of runAnalysis for the returned call i.
SceneResultApplied(i) ==
    SceneReturned(i) /\ sceneCalls' = RemoveAt(sceneCalls, i)

\* C21: when a scene analysis returns a quota-exceeded result the identified
\* person, the nudges and the interaction history are left unchanged; the only
\* effects are the quota flag and one advisory entry at the head of the memory log.
QuotaResultKeepsDisplayedState ==
    [][\A i \in SceneCallIds :
          (SceneResultApplied(i) /\ sceneCalls[i].result.isQuotaExceeded) =>
              /\ identifiedPerson' = identifiedPerson
              /\ nudges' = nudges
              /\ history' = history
              /\ lastSummaryRef' = lastSummaryRef
              /\ quotaHit'
              /\ memoryLog'
                     = Take(<< <<"Quota Exceeded - Please wait a minute">> >> \o memoryLog, 5)]_vars

\* Jane was identified by one scan and the next scan ended in a quota-exceeded
\* result: she is still shown, with her nudge, under the advisory.
PersonShownAfterQuotaResult ==
    /\ sceneCalls = <<>>
    /\ quotaHit
    /\ identifiedPerson.name = "Jane"
    /\ nudges = <<"Take pills">>
    /\ Len(memoryLog) = 2
    /\ memoryLog[1] = <<"Quota Exceeded - Please wait a minute">>

(***************************************************************************)
(* C22  a scene analysis that fails without a quota error                  *)
(***************************************************************************)
\* C22 as stated: when a scene analysis ends in a non-quota failure of every
\* configured tier, the previously identified person remains set.
FailureKeepsIdentifiedPerson ==
    [][\A i \in SceneCallIds :
          (/\ SceneResultApplied(i)
           /\ sceneCalls[i].result.kind = "failure"
           /\ ~sceneCalls[i].result.isQuotaExceeded)
              => identifiedPerson' = identifiedPerson]_vars

(***************************************************************************)
(* C23  no cancellation of a conversation analysis                         *)
(***************************************************************************)
\* The step applies the response of call i to the state as it is now.
ConvResultApplied(i) ==
    LET response == convCalls[i].response IN
    /\ ConvAnswered(i)
    /\ convCalls' = RemoveAt(convCalls, i)
    /\ summaryMatch(response).found =>
           /\ lastSummary' = summaryMatch(response).value
           /\ lastConversationSummary' = summaryMatch(response).value
    /\ VisitorIsSet(response) =>
           visitorInfo' = extractedVisitor(response, convCalls[i].visitorInfo)
    /\ PositionallyCorrected(conversations, conversations', response)

\* C23: an analysis in flight is never cancelled: stopping the recording, clearing
\* the conversation or starting a new recording leaves every call in flight where
\* it is, and a call ends only by applying its summary, its visitor and its
\* transcript corrections to the state that exists at that moment.
AnalysisInFlightNeverCancelled ==
    [][IF Len(convCalls') < Len(convCalls)
       THEN \E i \in ConvCallIds : ConvResultApplied(i)
       ELSE \A i \in ConvCallIds :
               /\ convCalls'[i].text = convCalls[i].text
               /\ ConvAnswered(i) => convCalls'[i] = convCalls[i]]_vars

\* The recording was stopped and started again while the analysis of the first
\* session was in flight; its answer then set the summary and the visitor of the new
\* session and rewrote the first turn of the new session.
OldAnalysisAppliedToNewSession ==
    /\ toggles = 2
    /\ isListening
    /\ convCalls = <<>>
    /\ lastSummary = <<"Good visit">>
    /\ visitorInfo.name = <<"Jane">>
    /\ Len(conversations) = 1
    /\ conversations[1].timestamp > 1
    /\ conversations[1].text = <<"see", "you", "soon">>

(***************************************************************************)
(* The task list: speech results that mention tasks, the stop of a         *)
(* recording, and the removal of listed tasks.                             *)
(***************************************************************************)
TaskUtterances ==
    { <<"lunch", "on", "Friday">>,
      <<"remind", "me", "to", "call", "and", "lunch", "on", "Friday">>,
      <<"see", "you", "tomorrow">> }

hearTaskMention == \E transcript \in TaskUtterances, gap \in {0, 2} : speechResult(transcript, gap)

NextTasks ==
    \/ InitModels
    \/ hearTaskMention
    \/ toggleListening
    \/ removeTask
    \/ Render

SpecTasks == Init /\ [][NextTasks]_vars

\* C24: the task list never holds two tasks with the same event label, and a step
\* other than a removal keeps the listed tasks in place and appends only labels
\* that were not listed.
TaskLabelsDistinct ==
    \A i, j \in 1..Len(tasks) : tasks[i].event = tasks[j].event => i = j

DeliveriesAppendOnlyNewLabels ==
    (Len(tasks') >= Len(tasks) /\ tasks' # tasks)
        => /\ SubSeq(tasks', 1, Len(tasks)) = tasks
           /\ \A k \in (Len(tasks) + 1)..Len(tasks') :
                  \A j \in 1..Len(tasks) : tasks[j].event # tasks'[k].event

TaskListNeverRepeatsALabel ==
    []TaskLabelsDistinct /\ [][DeliveriesAppendOnlyNewLabels]_vars

\* The mention heard in a turn was delivered again at the stop of the recording,
\* and the list holds it once.
MentionDeliveredTwiceListedOnce ==
    /\ ~isListening
    /\ Len(tasks) = 1
    /\ Len(memoryLog) >= 2
    /\ memoryLog[1] = memoryLog[2]
    /\ LET mention == DateTask(<<"lunch">>, <<"Friday">>)
       IN /\ memoryLog[1] = mention.mark \o mention.text
          /\ tasks[1].event = cleanEvent(mention)

(***************************************************************************)
(* The analysis cycles under fair scheduling: a model that was invoked     *)
(* answers or fails, and the continuation of an await runs once its        *)
(* promise has settled.  analyzeConversationResume is enabled exactly when *)
(* ConvContinuationPending holds and can be taken only as often as calls   *)
(* are made, so its weak fairness is stated as: again and again no         *)
(* continuation is pending.                                                *)
(***************************************************************************)
SceneSourceResponds ==
    ScenePrimarySucceeds \/ ScenePrimaryFails \/ SceneBackupSucceeds \/ SceneBackupFails

ConvSourceResponds ==
    ConvPrimarySucceeds \/ ConvPrimaryFails \/ ConvBackupSucceeds \/ ConvBackupFails

NextCycles ==
    \/ handleManualAnalysis
    \/ AnalyzeButton
    \/ SceneSourceResponds
    \/ runAnalysisResume
    \/ ConvSourceResponds
    \/ analyzeConversationResume
    \/ Render

InitCycles ==
    /\ InitTiers
    /\ conversations = <<YouSaid(<<"lunch", "on", "Friday">>)>>

\* A response that has arrived is waiting for the continuation of analyzeConversation.
ConvContinuationPending == \E i \in 1..Len(convCalls) : convCalls[i].pc = "parse"

SpecCycles ==
    /\ InitCycles
    /\ [][NextCycles]_vars
    /\ WF_vars(SceneSourceResponds)
    /\ WF_vars(runAnalysisResume)
    /\ WF_vars(ConvSourceResponds)
    /\ []<>~ConvContinuationPending

\* C25: a cycle that has set its in-flight flag (isAnalyzingRef with isAnalyzing, or
\* isProcessing) clears it once the models have responded, whatever they responded.
InFlightFlagsEventuallyCleared ==
    /\ isAnalyzingRef ~> (~isAnalyzingRef /\ ~isAnalyzing)
    /\ isProcessing ~> ~isProcessing

\* A scene cycle that ended with the quota result and a conversation cycle that
\* ended with the heuristic response have both cleared their flags.
FlagsClearedAfterQuotaAndHeuristic ==
    /\ quotaHit
    /\ ~isAnalyzingRef /\ ~isAnalyzing /\ sceneCalls = <<>>
    /\ ~isProcessing /\ convCalls = <<>>
    /\ lastSummary # <<>>

\* C26: whenever no scene analysis is in flight the status is not 'Analyzing...':
\* every completed cycle, one with a quota result included, has left it at
\* 'Watching' or at an error status.
StatusAnalyzingOnlyInFlight ==
    (~isAnalyzingRef /\ sceneCalls = <<>>) => status # "Analyzing..."

(***************************************************************************)
(* The speaker: faces are identified while the recorder listens, the       *)
(* speaker is switched by hand, by pauses and by the identifiedPerson      *)
(* effect.                                                                 *)
(***************************************************************************)
\* The models are created, the camera is ready and a recording has been started.
InitSpeaker ==
    /\ primaryModel = TRUE
    /\ backupModel = FALSE
    /\ cameraReady = TRUE
    /\ isAutoScanEnabled = FALSE
    /\ isAnalyzingRef = FALSE
    /\ isAnalyzing = FALSE
    /\ status = "Watching"
    /\ quotaHit = FALSE
    /\ identifiedPerson = NoPerson
    /\ nudges = <<>>
    /\ memoryLog = <<>>
    /\ history = 0
    /\ lastSummaryRef = <<>>
    /\ lastConversationSummary = <<>>
    /\ lastVisitorInfo = NoVisitor
    /\ tasks = <<>>
    /\ sceneCalls = <<>>
    /\ scans = 0
    /\ isListening = TRUE
    /\ conversations = <<>>
    /\ isProcessing = FALSE
    /\ lastSummary = <<>>
    /\ visitorInfo = NoVisitor
    /\ currentSpeaker = "You"
    /\ isManualSwitchRef = FALSE
    /\ primarySpeakerRef = ""
    /\ sinceChange = "recent"
    /\ convCalls = <<>>
    /\ analyses = 0
    /\ turns = 0
    /\ toggles = 0
    /\ dates = <<>>
    /\ pendingAdds = <<>>
    /\ nextId = 1
    /\ failures = 0
    /\ stores = EmptyStores
    /\ loads = <<>>
    /\ lastBatch = {}
    /\ rendered = ListeningRender
    /\ dirty = NoDirty
    /\ now = RefNow
    /\ parsed = NoParse

NextSpeaker ==
    \/ handleManualAnalysis
    \/ ScenePrimarySucceeds
    \/ runAnalysisResume
    \/ handleSpeechResult
    \/ switchSpeaker
    \/ TimePasses
    \/ Render

SpecSpeaker == InitSpeaker /\ [][NextSpeaker]_vars

\* The identifiedPerson effect switches the speaker from Visitor to You.
FaceSwitchesToYou == Render /\ currentSpeaker = "Visitor" /\ currentSpeaker' = "You"

\* The identifiedPerson effect switches the speaker from You to Visitor.
FaceSwitchesToVisitor == Render /\ currentSpeaker = "You" /\ currentSpeaker' = "Visitor"

\* A speech result after a pause switches the speaker.
PauseSwitchesTurn == handleSpeechResult /\ currentSpeaker' # currentSpeaker

\* With the lock set, seeing the primary user again does not switch from Visitor
\* to You.
LockHoldsAgainstReidentification ==
    [][(isManualSwitchRef /\ primarySpeakerRef # ""
            /\ identifiedPerson.name = primarySpeakerRef)
        => ~FaceSwitchesToYou]_vars

\* The lock is cleared only by a pause-based turn switch or by a face-driven
\* switch to Visitor.
LockClearedOnlyBySwitch ==
    [][(isManualSwitchRef /\ ~isManualSwitchRef')
        => (PauseSwitchesTurn \/ FaceSwitchesToVisitor)]_vars

\* C27: an automatic face-driven switch from Visitor to You happens only with the
\* manual lock clear and more than 15 s after the last speaker change, and the
\* lock is cleared only by a pause-based turn switch or a face-driven switch to
\* Visitor.
FaceSwitchToYouRespectsLock ==
    [][/\ FaceSwitchesToYou => (~isManualSwitchRef /\ sinceChange = "long")
       /\ (isManualSwitchRef /\ ~isManualSwitchRef')
              => (PauseSwitchesTurn \/ FaceSwitchesToVisitor)]_vars

SpecSeed == Init /\ [][NextSeed]_vars

\* C28: on a store that was empty, once the runs of loadAllData that were started
\* have ended, the conversations store holds exactly the 3 seeded records and the
\* people store one record per mock name.
SeededWithoutDuplicates ==
    (Len(loads) > 0 /\ \A i \in 1..Len(loads) : loads[i].pc = "done")
        => /\ Len(stores.conversations) = 3
           /\ \A n \in mockNames : Cardinality({q \in stores.people : q.name = n}) = 1
           /\ Cardinality(stores.people) = Cardinality(mockNames)

\* The people store alone: one record per mock name after any runs.
PeopleSeededOnce ==
    (Len(loads) > 0 /\ \A i \in 1..Len(loads) : loads[i].pc = "done")
        => /\ \A n \in mockNames : Cardinality({q \in stores.people : q.name = n}) = 1
           /\ Cardinality(stores.people) = Cardinality(mockNames)

(***************************************************************************)
(* A recording that is stopped and started again while a scan identifies a *)
(* face, the speaker is switched by hand and the analysis is answered.     *)
(***************************************************************************)
InitRestart ==
    /\ TiersState
    /\ toggles = 0
    /\ ~backupModel
    /\ conversations = <<YouSaid(<<"see", "you", "on", "Feb", "16">>)>>

NextRestart ==
    \/ ScenePrimarySucceeds
    \/ runAnalysisResume
    \/ toggleListening
    \/ switchSpeaker
    \/ ConvPrimarySucceeds
    \/ analyzeConversationResume
    \/ addDate
    \/ Render

SpecRestart == InitRestart /\ [][NextRestart]_vars

\* toggleListening takes its start branch.
RecordingStarts == toggleListening /\ ~rendered.isListening

MonthDayOnOrAfterReferenceDay ==
    ( /\ parsed.done
      /\ ~EarlierKeyword(parsed.text)
      /\ NamedWeekdays(parsed.text) = {}
      /\ Cardinality(MonthDayMentions(parsed.text)) = 1 ) =>
        \A m \in MonthDayMentions(parsed.text) :
            LET thisYear == DayNumber(getFullYear(now.day), m.month, m.day)
                nextYear == DayNumber(getFullYear(now.day) + 1, m.month, m.day)
            IN parsed.result = [day |-> IF thisYear >= now.day THEN thisYear ELSE nextYear,
                                tod |-> 0]

=============================================================================
